---- MODULE Spec2Model ----
(***************************************************************************)
(* Model of the fast-rlm recursive agent driver: runSubagentCommand, the   *)
(* per-agent turn loop `subagent`, and the llm_query recursion bridge      *)
(* (src/src/subagents.ts), with the chat client of src/src/call_llm.ts.    *)
(*                                                                         *)
(* An agent is one call of subagent().  Agents are kept in the sequence    *)
(* `agents`; the index of an agent is its run_id.  All code between two    *)
(* `await`s of the TypeScript source is one atomic action.                 *)
(***************************************************************************)
EXTENDS Integers, Sequences, FiniteSets, TLC

\* ---------------------------------------------------------------- bounds
\* max_calls_per_subagent of rlm_config.yaml (default 20, subagents.ts:40)
MAX_CALLS == 2
\* max_depth of rlm_config.yaml (default 3, subagents.ts:41)
MAX_DEPTH == 1
\* number of subagent() calls explored in one invocation
MaxAgents == 2
\* llm_query calls the executed code makes in one turn
MaxQueriesPerTurn == 1
\* largest prompt / completion token count a single reply reports
MaxCallTokens == 1
\* value of max_prompt_tokens / max_completion_tokens when it is set
TokenCap == 1
\* fenced repl blocks in one reply of the model
MaxBlocks == 2

\* ---------------------------------------------------------------- values
\* `undefined` of resolveTokenLimits: the cap is not set
Undefined == -1
\* Python None, which pyodide.globals.get hands to JS as undefined
None == <<"None", 0, 0>>
\* the literal a turn of agent a can pass to FINAL()
Lit(a, i) == <<"lit", a, i>>
\* no run id (parent_run_id of the root, no child awaited)
NoRun == 0
\* no function application recorded
NoCall == [fn |-> "none"]
\* no `rlm` process observed
NoProc == [pc |-> "none"]

VARIABLES
    limits,      \* [maxPromptTokens, maxCompletionTokens] of resolveTokenLimits
    agents,      \* sequence of agent records, index = run_id
    events,      \* the log stream, in emission order
    totalUsage,  \* the process-wide usage accumulator (usage.ts)
    chatUsage,   \* history: field-wise sum of the usage every chat reply
                 \* carried since resetUsage() of this invocation
    cmd,         \* the frame of runSubagentCommand
    call,        \* one application of a function of provider_config.ts or
                 \* of truncateText: its name, its arguments and its result
    proc         \* one `rlm` process (cli.ts main): its argv, where it
                 \* stands, what it wrote to stdout, stderr and the output
                 \* path, and its exit code

vars == <<limits, agents, events, totalUsage, chatUsage, cmd, call, proc>>

\* ------------------------------------------------------- pure definitions
\* for (let i = 0; i < MAX_CALLS; i++)
LoopContinuesOff(i) == i <= MAX_CALLS
LoopContinues(i) == i < MAX_CALLS

\* if (subagent_depth >= MAX_DEPTH) in llm_query
DepthCapReached(d) == d >= MAX_DEPTH

\* subagent(context, subagent_depth + 1, logger.run_id, models)
ChildDepthSame(d) == d
ChildDepth(d) == d + 1

\* step: i + 1 of the three logStep calls of the loop
StepNumberOff(i) == i
StepNumber(i) == i + 1

\* const finalResult = pyodide.globals.get("__final_result__");
\* if (finalResult !== undefined): Python None reads as undefined
HasFinalResultAlways(v) == TRUE
HasFinalResult(v) == v # None

\* the prompt budget check with >= in place of >
PromptBudgetExceededAtCap(total, lim) ==
    lim.maxPromptTokens # Undefined /\ total.prompt_tokens >= lim.maxPromptTokens

\* MAX_PROMPT_TOKENS !== undefined && totalUsage.prompt_tokens > MAX_PROMPT_TOKENS
PromptBudgetExceeded(total, lim) ==
    lim.maxPromptTokens # Undefined /\ total.prompt_tokens > lim.maxPromptTokens

\* MAX_COMPLETION_TOKENS !== undefined && totalUsage.completion_tokens > MAX_COMPLETION_TOKENS
CompletionBudgetExceeded(total, lim) ==
    lim.maxCompletionTokens # Undefined /\ total.completion_tokens > lim.maxCompletionTokens

\* trackUsage(usage): field-wise addition into the accumulator
trackUsage(total, usage) ==
    [prompt_tokens |-> total.prompt_tokens + usage.prompt_tokens,
     completion_tokens |-> total.completion_tokens + usage.completion_tokens]

\* resetUsage()
ZeroUsage == [prompt_tokens |-> 0, completion_tokens |-> 0]

\* what the accumulator holds when an earlier invocation of the same
\* process (runCli called again) has counted a reply
LeftoverUsage == [prompt_tokens |-> MaxCallTokens, completion_tokens |-> 0]

\* the usage records a reply carries after normalizeUsage: MaxCallTokens
\* tokens, counted as prompt tokens or as completion tokens
UsageSet ==
    {[prompt_tokens |-> MaxCallTokens, completion_tokens |-> 0],
     [prompt_tokens |-> 0, completion_tokens |-> MaxCallTokens]}
\* the usage records the replies of one invocation carry: with a budget
\* configured, either kind; without one the split between prompt and
\* completion tokens decides nothing and every reply counts prompt tokens
ReplyUsages(lim) ==
    IF lim.maxPromptTokens = Undefined /\ lim.maxCompletionTokens = Undefined
    THEN {[prompt_tokens |-> MaxCallTokens, completion_tokens |-> 0]}
    ELSE UsageSet

\* String.prototype.trim, for blanks
RECURSIVE Trim(_)
Trim(s) ==
    IF Len(s) = 0 THEN s
    ELSE IF SubSeq(s, 1, 1) = " " THEN Trim(SubSeq(s, 2, Len(s)))
    ELSE IF SubSeq(s, Len(s), Len(s)) = " " THEN Trim(SubSeq(s, 1, Len(s) - 1))
    ELSE s

\* ------------------------------------------------ call_llm.ts, extraction
\* the text between ```repl and ``` of one fenced block of a reply:
\* nothing, blanks, or Python code
BlockTexts == {"", " ", "x"}
\* the fenced repl blocks of a reply, in order: up to MaxBlocks blocks, all
\* of them holding the same text
Replies == {[k \in 1..n |-> t] : n \in 0..MaxBlocks, t \in BlockTexts}

\* replMatches.map(m => m[1].trim()).join("\n")
RECURSIVE Join(_)
Join(blocks) ==
    IF Len(blocks) = 0 THEN ""
    ELSE IF Len(blocks) = 1 THEN Trim(blocks[1])
    ELSE Trim(blocks[1]) \o "\n" \o Join(Tail(blocks))

\* generate_code with success meaning "some block holds code"
generate_codeByBlocks(blocks) ==
    [code |-> Join(blocks),
     success |-> \E k \in 1..Len(blocks) : Trim(blocks[k]) # ""]

\* generate_code: if (!code) return {code: "", success: false, ...}
\* else {code, success: true, ...}
generate_code(blocks) ==
    LET code == Join(blocks) IN [code |-> code, success |-> code # ""]

\* what a reply holds: no block, one empty block, several blocks all of
\* them empty, or at least one block with code
NoReply == "no_reply"
ReplyKind(blocks) ==
    IF Len(blocks) = 0 THEN "no_block"
    ELSE IF \E k \in 1..Len(blocks) : Trim(blocks[k]) # "" THEN "code_block"
    ELSE IF Len(blocks) = 1 THEN "empty_block"
    ELSE "empty_blocks"

\* the code a step carries: "" when none was extracted, "blank" when it is
\* line breaks only (nothing to execute), "code" otherwise
RECURSIVE LineBreaksOnly(_)
LineBreaksOnly(code) ==
    Len(code) = 0 \/ (SubSeq(code, 1, 1) = "\n" /\ LineBreaksOnly(SubSeq(code, 2, Len(code))))
CodeKind(code) ==
    IF code = "" THEN "" ELSE IF LineBreaksOnly(code) THEN "blank" ELSE "code"

\* fatalError ? EXIT_CODES.RUNTIME : EXIT_CODES.OK
EXIT_OK == 0
EXIT_RUNTIME == 6
ExitCodeFor(fatalError) == IF fatalError # "none" THEN EXIT_RUNTIME ELSE EXIT_OK

\* the model pair the preflight resolves to
ModelPairs == {[primaryAgent |-> "gpt-5", subAgent |-> "gpt-5-codex-mini"]}
NoModels == [primaryAgent |-> "", subAgent |-> ""]

\* logger.logStep({step, code, output?, ...}): the event of the log stream
\* keeps the run and the step number
StepEvent(id, step, code, hasOutput) ==
    [run_id |-> id, event_type |-> "step", step |-> step]
\* the `output` / `hasError` field of a logStep call made without it
NotLogged == "absent"
\* the argument of the logStep call an agent made in the turn that has just
\* ended (or for the seed step), in full: the step number, which code it carries ("seed", "" or "code"), whether it carries
\* an output, and hasError
StepRecord(step, code, hasOutput, hasError) ==
    [step |-> step, code |-> code,
     output |-> IF hasOutput THEN "text" ELSE NotLogged, hasError |-> hasError]
NoStep == StepRecord(-1, NotLogged, FALSE, NotLogged)
\* new Logger(subagent_depth, MAX_CALLS, parent_run_id): a fresh run_id and
\* the run_start event
RunStartEvent(id) ==
    [run_id |-> id, event_type |-> "run_start", step |-> -1]
\* logger.logFinalResult(result)
FinalResultEvent(id) ==
    [run_id |-> id, event_type |-> "final_result", step |-> -1]

\* the entry pushed to the chat history last: its role and what it holds
Message(role, content) == [role |-> role, content |-> content]
NoMessage == Message("none", "none")
\* "Error: We could not extract code because you may not have used repl block!"
ExtractError == "ExtractError"

\* the frame subagent() starts with, up to its first await; `messages` keeps
\* the role of every entry of the chat history, `preflights` counts the
\* frame's calls of resolveRuntimeModelSelection(), `chatModel` and
\* `request` are the model and the message roles of its last chat request
NewAgent(depth, parent, models) ==
    [depth |-> depth, parent_run_id |-> parent, models |-> models,
     pc |-> IF parent = NoRun THEN "preflight" ELSE "load",
     i |-> 0, calls |-> 0, sandbox |-> "none",
     finalResult |-> None, stdoutBuffer |-> <<>>,
     messages |-> <<>>, lastMessage |-> NoMessage, lastStep |-> NoStep,
     reply |-> NoReply,
     queryLog |-> <<>>,
     waitingFor |-> NoRun, childVal |-> None, childErr |-> "none",
     lastChild |-> NoRun, result |-> None, error |-> "none",
     preflights |-> 0, chatModel |-> "", request |-> <<>>]

Ids == 1..Len(agents)

\* ------------------------------------------------------------------ Init
InitCore ==
    /\ limits \in {[maxPromptTokens |-> c, maxCompletionTokens |-> c] :
                      c \in {Undefined, TokenCap}}
    /\ agents = <<>>
    /\ events = <<>>
    /\ totalUsage \in {ZeroUsage, LeftoverUsage}
    /\ chatUsage = ZeroUsage
    /\ cmd = [pc |-> "init", out |-> None, fatalError |-> "none",
              flushCount |-> 0, exitCode |-> -1, thrown |-> "none",
              logFileRead |-> FALSE, outputWritten |-> FALSE,
              reported |-> FALSE]
    /\ call = NoCall

Init == InitCore /\ proc = NoProc

\* --------------------------------------------------------------- helpers
\* a line of a captured stdout buffer: what wrote it, in which agent and turn
Line(kind, a) == [kind |-> kind, run_id |-> a, turn |-> agents[a].i]

\* subagent() is left by return or throw: the frame keeps its outcome, its
\* locals (stdoutBuffer, messages, the sandbox globals read through pyodide)
\* are gone
Exit(rec, pc, result, err) ==
    [rec EXCEPT !.pc = pc, !.result = result, !.error = err,
                !.finalResult = None, !.stdoutBuffer = <<>>, !.queryLog = <<>>,
                !.messages = <<>>, !.lastMessage = NoMessage, !.lastStep = NoStep,
                !.reply = NoReply,
                !.childVal = None, !.childErr = "none", !.lastChild = NoRun]

\* const hasError = stdoutBuffer.includes("Error"): the line written by the
\* catch around runPythonAsync and the one written by llm_query at the
\* depth cap hold the word
hasError(buf) ==
    IF \E n \in 1..Len(buf) : buf[n].kind \in {"PyError", "MaxDepthError"}
    THEN "true" ELSE "false"

\* the turn going on without the reset of the buffer
ResetStdoutKeeps(buf) == buf

\* stdoutBuffer = "" before runPythonAsync(code)
ResetStdout(buf) == <<>>

\* what wrote the end of a stdout buffer
LastKind(buf) == IF buf = <<>> THEN "empty" ELSE buf[Len(buf)].kind

\* throw new Error(...) leaving the turn loop of agent a
Throw(a, err) == [agents EXCEPT ![a] = Exit(@, "failed", None, err)]

\* the request of generate_code without the system message
RequestMessagesNoSystem(messages) == messages

\* generate_code: messages: [{ role: "system", content: SYSTEM_PROMPT },
\* ...messages], by role
RequestMessages(messages) == <<"system">> \o messages

\* model_name taken from models.primaryAgent at every depth
ModelNamePrimaryAlways(a) == agents[a].models.primaryAgent

\* const model_name = subagent_depth == 0 ? models.primaryAgent : models.subAgent
ModelName(a) ==
    IF agents[a].depth = 0 THEN agents[a].models.primaryAgent
    ELSE agents[a].models.subAgent

\* ------------------------------------------------- runSubagentCommand (1)
\* validatePrefix(opts.prefix) throws a usage CliError before anything else
CmdRejectPrefix ==
    /\ cmd.pc = "init"
    /\ cmd' = [cmd EXCEPT !.pc = "threw", !.thrown = "usage"]
    /\ UNCHANGED <<proc, call, chatUsage, limits, agents, events, totalUsage>>

\* no prefix or a valid one: resetUsage(), then subagent(opts.context) runs
\* up to its first await: emitConfigWarnings(), new Logger(0, MAX_CALLS)
CmdStart ==
    /\ cmd.pc = "init"
    /\ totalUsage' = ZeroUsage
    /\ chatUsage' = ZeroUsage
    /\ agents' = <<NewAgent(0, NoRun, NoModels)>>
    /\ events' = <<RunStartEvent(1)>>
    /\ cmd' = [cmd EXCEPT !.pc = "running"]
    /\ UNCHANGED <<proc, call, limits>>

\* ------------------------------------------------------ subagent: entry
\* const models = runtimeModels ?? await resolveRuntimeModelSelection()
PreflightOk(a) ==
    /\ agents[a].pc = "preflight"
    /\ \E m \in ModelPairs :
          agents' = [agents EXCEPT ![a].models = m, ![a].pc = "load",
                                   ![a].preflights = @ + 1]
    /\ UNCHANGED <<proc, call, chatUsage, limits, events, totalUsage, cmd>>

\* resolveProxyClientConfig / fetchAvailableModels throw
PreflightFail(a) ==
    /\ agents[a].pc = "preflight"
    /\ \E kind \in {"config", "proxy", "model"} :
          agents' = [Throw(a, kind) EXCEPT ![a].preflights = @ + 1]
    /\ UNCHANGED <<proc, call, chatUsage, limits, events, totalUsage, cmd>>

\* loadPyodide, llm_query binding, setup_code, initial_code, logStep(step 0)
OpenSandbox(a) ==
    /\ agents[a].pc = "load"
    /\ agents' = [agents EXCEPT ![a].sandbox = "open",
                                ![a].finalResult = None,
                                ![a].stdoutBuffer = <<Line("seed", a)>>,
                                ![a].messages = <<"user">>,
                                ![a].lastMessage = Message("user", "seed"),
                                ![a].lastStep = StepRecord(0, "seed", TRUE, "false"),
                                ![a].pc = "gen"]
    /\ events' = Append(events, StepEvent(a, 0, "seed", TRUE))
    /\ UNCHANGED <<proc, call, chatUsage, limits, totalUsage, cmd>>

\* -------------------------------------------------- subagent: turn loop
\* loop head, i < MAX_CALLS: a new turn starts, generate_code(messages,
\* model_name) is issued
StartChat(a) ==
    /\ agents[a].pc = "gen"
    /\ LoopContinues(agents[a].i)
    /\ agents' = [agents EXCEPT ![a].pc = "chat", ![a].calls = @ + 1,
                                ![a].chatModel = ModelName(a),
                                ![a].request = RequestMessages(agents[a].messages),
                                ![a].lastStep = NoStep, ![a].reply = NoReply]
    /\ UNCHANGED <<proc, call, chatUsage, limits, events, totalUsage, cmd>>

\* falling off the loop with a plain return instead of the throw
LoopExhaustedReturns(a) ==
    /\ agents[a].pc = "gen"
    /\ ~LoopContinues(agents[a].i)
    /\ agents' = [agents EXCEPT ![a] = Exit(@, "returned", None, "none")]
    /\ UNCHANGED <<proc, call, chatUsage, limits, events, totalUsage, cmd>>

\* loop head, i = MAX_CALLS: throw new Error("Did not finish ...")
LoopExhausted(a) ==
    /\ agents[a].pc = "gen"
    /\ ~LoopContinues(agents[a].i)
    /\ agents' = Throw(a, "max_calls")
    /\ UNCHANGED <<proc, call, chatUsage, limits, events, totalUsage, cmd>>

\* generate_code rejects (resolveProxyClientConfig or the HTTP call throws)
ChatFail(a) ==
    /\ agents[a].pc = "chat"
    /\ agents' = Throw(a, "chat")
    /\ UNCHANGED <<proc, call, chatUsage, limits, events, totalUsage, cmd>>

\* generate_code resolves, with trackUsage called only for a reply that
\* carries a repl block
ChatReplyTracksCodeOnly(a) ==
    /\ agents[a].pc = "chat"
    /\ \E usage \in ReplyUsages(limits), blocks \in Replies :
         LET code == generate_code(blocks).code
             success == generate_code(blocks).success
             total == IF success THEN trackUsage(totalUsage, usage) ELSE totalUsage
         IN
         /\ totalUsage' = total
         /\ chatUsage' = [prompt_tokens |-> chatUsage.prompt_tokens + usage.prompt_tokens,
                          completion_tokens |->
                              chatUsage.completion_tokens + usage.completion_tokens]
         /\ IF PromptBudgetExceeded(total, limits)
            THEN agents' = Throw(a, "budget_prompt") /\ UNCHANGED events
            ELSE IF CompletionBudgetExceeded(total, limits)
            THEN agents' = Throw(a, "budget_completion") /\ UNCHANGED events
            ELSE IF ~success
            THEN /\ events' = Append(events,
                                StepEvent(a, StepNumber(agents[a].i), code, FALSE))
                 /\ agents' = [agents EXCEPT
                                 ![a].messages = @ \o <<"assistant", "user">>,
                                 ![a].lastMessage = Message("user", ExtractError),
                                 ![a].lastStep = StepRecord(StepNumber(agents[a].i),
                                                            CodeKind(code), FALSE,
                                                            NotLogged),
                                 ![a].reply = ReplyKind(blocks),
                                 ![a].i = @ + 1, ![a].pc = "gen"]
            ELSE /\ agents' = [agents EXCEPT
                                 ![a].messages = Append(@, "assistant"),
                                 ![a].lastMessage = Message("assistant", "reply"),
                                 ![a].reply = ReplyKind(blocks),
                                 ![a].stdoutBuffer = ResetStdout(@),
                                 ![a].queryLog = <<>>,
                                 ![a].pc = "exec"]
                 /\ UNCHANGED events
    /\ UNCHANGED <<proc, call, limits, cmd>>

\* generate_code resolves: messages.push, trackUsage, the two budget checks,
\* then the !success branch or the stdout reset before runPythonAsync(code)
ChatReply(a) ==
    /\ agents[a].pc = "chat"
    /\ \E usage \in ReplyUsages(limits), blocks \in Replies :
         LET total == trackUsage(totalUsage, usage)
             code == generate_code(blocks).code
             success == generate_code(blocks).success
         IN
         /\ totalUsage' = total
         /\ chatUsage' = [prompt_tokens |-> chatUsage.prompt_tokens + usage.prompt_tokens,
                          completion_tokens |->
                              chatUsage.completion_tokens + usage.completion_tokens]
         /\ IF PromptBudgetExceeded(total, limits)
            THEN agents' = Throw(a, "budget_prompt") /\ UNCHANGED events
            ELSE IF CompletionBudgetExceeded(total, limits)
            THEN agents' = Throw(a, "budget_completion") /\ UNCHANGED events
            ELSE IF ~success
            THEN /\ events' = Append(events,
                                StepEvent(a, StepNumber(agents[a].i), code, FALSE))
                 /\ agents' = [agents EXCEPT
                                 ![a].messages = @ \o <<"assistant", "user">>,
                                 ![a].lastMessage = Message("user", ExtractError),
                                 ![a].lastStep = StepRecord(StepNumber(agents[a].i),
                                                            CodeKind(code), FALSE,
                                                            NotLogged),
                                 ![a].reply = ReplyKind(blocks),
                                 ![a].i = @ + 1, ![a].pc = "gen"]
            ELSE /\ agents' = [agents EXCEPT
                                 ![a].messages = Append(@, "assistant"),
                                 ![a].lastMessage = Message("assistant", "reply"),
                                 ![a].reply = ReplyKind(blocks),
                                 ![a].stdoutBuffer = ResetStdout(@),
                                 ![a].queryLog = <<>>,
                                 ![a].pc = "exec"]
                 /\ UNCHANGED events
    /\ UNCHANGED <<proc, call, limits, cmd>>

\* ------------------------------------ the executed code (runPythonAsync)
\* the code of this turn, as logged: statements, or line breaks only
TurnCode(a) == IF agents[a].reply = "code_block" THEN "code" ELSE "blank"
\* runPythonAsync(code) of agent a is under way and code holds a statement
Executing(a) == agents[a].pc = "exec" /\ agents[a].reply = "code_block"

\* print(...) in the sandbox: the stdout callback appends to stdoutBuffer;
\* text printed without an error line in between is one segment
PyPrint(a) ==
    /\ Executing(a)
    /\ LastKind(agents[a].stdoutBuffer) # "print"
    /\ agents' = [agents EXCEPT ![a].stdoutBuffer = Append(@, Line("print", a))]
    /\ UNCHANGED <<proc, call, chatUsage, limits, events, totalUsage, cmd>>

\* FINAL(x) / FINAL_VAR(x) / an assignment to __final_result__
PySetFinal(a) ==
    /\ Executing(a)
    /\ \E v \in {None, Lit(a, agents[a].i), agents[a].childVal} :
          /\ v # agents[a].finalResult
          /\ agents' = [agents EXCEPT ![a].finalResult = v]
    /\ UNCHANGED <<proc, call, chatUsage, limits, events, totalUsage, cmd>>

\* llm_query at the depth cap, throwing without the stdoutBuffer += line
LlmQueryDepthCapNoLine(a) ==
    /\ Executing(a)
    /\ Len(agents[a].queryLog) < MaxQueriesPerTurn
    /\ DepthCapReached(agents[a].depth)
    /\ agents' = [agents EXCEPT ![a].queryLog = Append(@, NoRun),
                                ![a].childErr = "max_depth"]
    /\ UNCHANGED <<proc, call, chatUsage, limits, events, totalUsage, cmd>>

\* llm_query at the depth cap: the error line is appended and the call throws
LlmQueryDepthCap(a) ==
    /\ Executing(a)
    /\ Len(agents[a].queryLog) < MaxQueriesPerTurn
    /\ DepthCapReached(agents[a].depth)
    /\ agents' = [agents EXCEPT ![a].stdoutBuffer = Append(@, Line("MaxDepthError", a)),
                                ![a].queryLog = Append(@, NoRun),
                                ![a].childErr = "max_depth"]
    /\ UNCHANGED <<proc, call, chatUsage, limits, events, totalUsage, cmd>>

\* llm_query below the cap: subagent(context, depth + 1, logger.run_id, models)
\* runs up to its first await (new Logger); the caller awaits it
LlmQuerySpawn(a) ==
    /\ Executing(a)
    /\ Len(agents[a].queryLog) < MaxQueriesPerTurn
    /\ ~DepthCapReached(agents[a].depth)
    /\ Len(agents) < MaxAgents
    /\ LET c == Len(agents) + 1 IN
         /\ agents' = Append([agents EXCEPT ![a].pc = "await",
                                            ![a].waitingFor = c,
                                            ![a].queryLog = Append(@, c)],
                             NewAgent(ChildDepth(agents[a].depth), a, agents[a].models))
         /\ events' = Append(events, RunStartEvent(c))
    /\ UNCHANGED <<proc, call, chatUsage, limits, totalUsage, cmd>>

\* llm_query below the cap, called without await: subagent(...) runs up to
\* its first await (new Logger) and the executed code goes on with the
\* pending future
LlmQueryNoAwait(a) ==
    /\ Executing(a)
    /\ Len(agents[a].queryLog) < MaxQueriesPerTurn
    /\ ~DepthCapReached(agents[a].depth)
    /\ Len(agents) < MaxAgents
    /\ LET c == Len(agents) + 1 IN
         /\ agents' = Append([agents EXCEPT ![a].queryLog = Append(@, c)],
                             NewAgent(ChildDepth(agents[a].depth), a, agents[a].models))
         /\ events' = Append(events, RunStartEvent(c))
    /\ UNCHANGED <<proc, call, chatUsage, limits, totalUsage, cmd>>

\* the awaited child returned: llm_query resolves with its output
ChildReturn(a) ==
    /\ agents[a].pc = "await"
    /\ agents[agents[a].waitingFor].pc = "returned"
    /\ agents' = [agents EXCEPT ![a].pc = "exec",
                                ![a].childVal = agents[agents[a].waitingFor].result,
                                ![a].lastChild = agents[a].waitingFor,
                                ![a].waitingFor = NoRun]
    /\ UNCHANGED <<proc, call, chatUsage, limits, events, totalUsage, cmd>>

\* the awaited child threw: llm_query rejects, the exception is raised in
\* the executed code, which catches it or ends with it (PyFinish)
ChildFail(a) ==
    /\ agents[a].pc = "await"
    /\ agents[agents[a].waitingFor].pc = "failed"
    /\ agents' = [agents EXCEPT ![a].pc = "exec",
                                ![a].childErr = agents[agents[a].waitingFor].error,
                                ![a].waitingFor = NoRun]
    /\ UNCHANGED <<proc, call, chatUsage, limits, events, totalUsage, cmd>>

\* runPythonAsync without the try / catch around it: an exception of the
\* executed code leaves the turn loop
PyFinishRethrows(a) ==
    /\ agents[a].pc = "exec"
    /\ \E raised \in {r \in BOOLEAN : r => Executing(a)} :
         IF raised
         THEN agents' = Throw(a, "python") /\ UNCHANGED events
         ELSE IF HasFinalResult(agents[a].finalResult)
         THEN /\ events' = events \o
                            <<StepEvent(a, StepNumber(agents[a].i), TurnCode(a), FALSE),
                              FinalResultEvent(a)>>
              /\ agents' = [agents EXCEPT
                             ![a] = Exit(@, "returned", agents[a].finalResult, "none")]
         ELSE /\ events' = Append(events,
                                StepEvent(a, StepNumber(agents[a].i), TurnCode(a), TRUE))
              /\ agents' = [agents EXCEPT
                             ![a].messages = Append(@, "user"),
                             ![a].lastMessage = Message("user", "Output"),
                             ![a].lastStep =
                                 StepRecord(StepNumber(agents[a].i), TurnCode(a), TRUE,
                                            hasError(agents[a].stdoutBuffer)),
                             ![a].i = @ + 1,
                             ![a].pc = "gen"]
    /\ UNCHANGED <<proc, call, chatUsage, limits, totalUsage, cmd>>

\* runPythonAsync settles (an exception appends "\nError: ..."), then
\* truncateText, the __final_result__ test, and either logStep +
\* logFinalResult + return, or logStep + messages.push + i++
PyFinish(a) ==
    /\ agents[a].pc = "exec"
    /\ \E raised \in {r \in BOOLEAN : r => Executing(a)} :
         LET out == IF raised THEN Append(agents[a].stdoutBuffer, Line("PyError", a))
                    ELSE agents[a].stdoutBuffer
         IN
         IF HasFinalResult(agents[a].finalResult)
         THEN /\ events' = events \o
                            <<StepEvent(a, StepNumber(agents[a].i), TurnCode(a), FALSE),
                              FinalResultEvent(a)>>
              /\ agents' = [agents EXCEPT
                             ![a] = Exit(@, "returned", agents[a].finalResult, "none")]
         ELSE /\ events' = Append(events,
                                StepEvent(a, StepNumber(agents[a].i), TurnCode(a), TRUE))
              /\ agents' = [agents EXCEPT ![a].stdoutBuffer = out,
                                          ![a].messages = Append(@, "user"),
                                          ![a].lastMessage = Message("user", "Output"),
                                          ![a].lastStep =
                                              StepRecord(StepNumber(agents[a].i),
                                                         TurnCode(a), TRUE,
                                                         hasError(out)),
                                          ![a].i = @ + 1,
                                          ![a].pc = "gen"]
    /\ UNCHANGED <<proc, call, chatUsage, limits, totalUsage, cmd>>

\* ------------------------------------------------- runSubagentCommand (2)
\* out = await subagent(opts.context) resolved
CmdRootReturned ==
    /\ cmd.pc = "running"
    /\ agents[1].pc = "returned"
    /\ cmd' = [cmd EXCEPT !.out = agents[1].result, !.pc = "finally"]
    /\ UNCHANGED <<proc, call, chatUsage, limits, agents, events, totalUsage>>

\* catch (err): fatalError = err.message
CmdRootThrew ==
    /\ cmd.pc = "running"
    /\ agents[1].pc = "failed"
    /\ cmd' = [cmd EXCEPT !.fatalError = agents[1].error, !.pc = "finally"]
    /\ UNCHANGED <<proc, call, chatUsage, limits, agents, events, totalUsage>>

\* Logger.flush() at the end of the try block instead of in finally
CmdFlushOnSuccessOnly ==
    /\ cmd.pc = "finally"
    /\ cmd' = [cmd EXCEPT !.flushCount = IF cmd.fatalError = "none" THEN @ + 1 ELSE @,
                          !.pc = "flushed"]
    /\ UNCHANGED <<proc, call, chatUsage, limits, agents, events, totalUsage>>

\* finally { await Logger.flush(); }
CmdFlush ==
    /\ cmd.pc = "finally"
    /\ cmd' = [cmd EXCEPT !.flushCount = @ + 1, !.pc = "flushed"]
    /\ UNCHANGED <<proc, call, chatUsage, limits, agents, events, totalUsage>>

\* getLogFile(), the payload, then without --output the envelope / log
\* line and the exit code; with --output the write is awaited first
CmdReadLogFile ==
    /\ cmd.pc = "flushed"
    /\ \E outputFile \in BOOLEAN :
          cmd' = IF outputFile
                 THEN [cmd EXCEPT !.logFileRead = TRUE, !.pc = "writing"]
                 ELSE [cmd EXCEPT !.logFileRead = TRUE, !.reported = TRUE,
                                  !.exitCode = ExitCodeFor(cmd.fatalError),
                                  !.pc = "done"]
    /\ UNCHANGED <<proc, call, chatUsage, limits, agents, events, totalUsage>>

\* writeOutputAtomically succeeded, then the envelope and the exit code
CmdWriteOutput ==
    /\ cmd.pc = "writing"
    /\ cmd' = [cmd EXCEPT !.outputWritten = TRUE, !.reported = TRUE,
                          !.exitCode = ExitCodeFor(cmd.fatalError),
                          !.pc = "done"]
    /\ UNCHANGED <<proc, call, chatUsage, limits, agents, events, totalUsage>>

\* writeOutputAtomically threw CliError("output", ...)
CmdWriteFail ==
    /\ cmd.pc = "writing"
    /\ cmd' = [cmd EXCEPT !.pc = "threw", !.thrown = "output"]
    /\ UNCHANGED <<proc, call, chatUsage, limits, agents, events, totalUsage>>

\* ------------------------------------------------------------ scheduling
\* agent a is running synchronous code (the executed Python between two
\* awaits, or the loop head up to the next generate_code): on the single
\* JavaScript thread nothing else runs until it awaits or returns
HoldsThread(a) == agents[a].pc \in {"exec", "gen"}
\* the process is alive until runSubagentCommand has returned or thrown
\* and the caller exits with its code
ProcessAlive == cmd.pc \notin {"done", "threw"}
\* the agents whose pending continuation can run now
Runnable ==
    {a \in Ids : ProcessAlive /\ \A b \in Ids \ {a} : ~HoldsThread(b)}

\* ------------------------------------------------------------------ Next
Next ==
    \/ CmdRejectPrefix
    \/ CmdStart
    \/ \E a \in Runnable : PreflightOk(a)
    \/ \E a \in Runnable : PreflightFail(a)
    \/ \E a \in Runnable : OpenSandbox(a)
    \/ \E a \in Runnable : StartChat(a)
    \/ \E a \in Runnable : LoopExhausted(a)
    \/ \E a \in Runnable : ChatFail(a)
    \/ \E a \in Runnable : ChatReply(a)
    \/ \E a \in Runnable : PyPrint(a)
    \/ \E a \in Runnable : PySetFinal(a)
    \/ \E a \in Runnable : LlmQueryDepthCap(a)
    \/ \E a \in Runnable : LlmQuerySpawn(a)
    \/ \E a \in Runnable : ChildReturn(a)
    \/ \E a \in Runnable : ChildFail(a)
    \/ \E a \in Runnable : PyFinish(a)
    \/ CmdRootReturned
    \/ CmdRootThrew
    \/ CmdFlush
    \/ CmdReadLogFile
    \/ CmdWriteOutput
    \/ CmdWriteFail

\* every llm_query call of the executed code is awaited
Spec == Init /\ [][Next]_vars

\* the executed code may also call llm_query without awaiting it
AsyncNext ==
    \/ Next
    \/ \E a \in Runnable : LlmQueryNoAwait(a)

AsyncSpec == Init /\ [][AsyncNext]_vars

\* every chat-completion call resolves, every sandbox execution settles:
\* the steps of Next without the rejected chat call
LiveNext ==
    \/ CmdRejectPrefix
    \/ CmdStart
    \/ \E a \in Runnable : PreflightOk(a)
    \/ \E a \in Runnable : PreflightFail(a)
    \/ \E a \in Runnable : OpenSandbox(a)
    \/ \E a \in Runnable : StartChat(a)
    \/ \E a \in Runnable : LoopExhausted(a)
    \/ \E a \in Runnable : ChatReply(a)
    \/ \E a \in Runnable : PyPrint(a)
    \/ \E a \in Runnable : PySetFinal(a)
    \/ \E a \in Runnable : LlmQueryDepthCap(a)
    \/ \E a \in Runnable : LlmQuerySpawn(a)
    \/ \E a \in Runnable : ChildReturn(a)
    \/ \E a \in Runnable : ChildFail(a)
    \/ \E a \in Runnable : PyFinish(a)
    \/ CmdRootReturned
    \/ CmdRootThrew
    \/ CmdFlush
    \/ CmdReadLogFile
    \/ CmdWriteOutput
    \/ CmdWriteFail

\* the event loop runs a pending continuation whenever there is one, and
\* the code a sandbox executes comes to its end
LiveSpec ==
    /\ Init
    /\ [][LiveNext]_vars
    /\ WF_vars(LiveNext)
    /\ \A a \in 1..MaxAgents : WF_vars(a \in Runnable /\ PyFinish(a))

\* ============================================ provider_config.ts, truncateText
\* Each function below is applied once to arguments drawn from a bounded
\* set; `call` records the arguments and what the function returned.

\* largest token count of a raw provider usage object
MaxRawTokens == 2

\* JavaScript values a provider object or an env / config entry can hold
Absent == <<"undefined", 0>>
Num(n) == <<"number", n>>
NonFinite == <<"NaN", 0>>
Str == <<"string", 0>>

\* obj.key, undefined when the object has no such key
Get(obj, key) == IF key \in DOMAIN obj THEN obj[key] ELSE Absent
\* obj.key?.sub
GetIn(obj, key, sub) == IF key \in DOMAIN obj THEN Get(obj[key], sub) ELSE Absent

\* typeof value === "number": NaN and the infinities are numbers too
IsNumber(value) == value[1] \in {"number", "NaN"}
\* Number.isFinite(value)
IsFinite(value) == value[1] = "number"

\* typeof value !== "number" || !Number.isFinite(value) || value <= 0
\* gives undefined, anything else the value itself
coercePositiveNumberOrZero(value) ==
    IF IsNumber(value) /\ IsFinite(value) /\ value[2] >= 0
    THEN value[2] ELSE Undefined
coercePositiveNumber(value) ==
    IF IsNumber(value) /\ IsFinite(value) /\ value[2] > 0
    THEN value[2] ELSE Undefined

\* a ?? b on the results of coercePositiveNumber
Coalesce(a, b) == IF a # Undefined THEN a ELSE b

\* typeof usage.cost === "number" && Number.isFinite(usage.cost) ? usage.cost : 0
CostOf(usage) ==
    LET c == Get(usage, "cost") IN
    IF IsNumber(c) /\ IsFinite(c) THEN c[2] ELSE 0

\* normalizeUsage reading the flat cached_tokens / reasoning_tokens keys of
\* the canonical record as well as the nested details
normalizeUsageReadsFlat(rawUsage) ==
    LET promptTokens ==
            Coalesce(coercePositiveNumber(Get(rawUsage, "prompt_tokens")),
            Coalesce(coercePositiveNumber(GetIn(rawUsage, "usageMetadata", "promptTokenCount")), 0))
        completionTokens ==
            Coalesce(coercePositiveNumber(Get(rawUsage, "completion_tokens")),
            Coalesce(coercePositiveNumber(GetIn(rawUsage, "usageMetadata", "candidatesTokenCount")), 0))
        totalTokens ==
            Coalesce(coercePositiveNumber(Get(rawUsage, "total_tokens")),
            Coalesce(coercePositiveNumber(GetIn(rawUsage, "usageMetadata", "totalTokenCount")),
                     promptTokens + completionTokens))
    IN [prompt_tokens |-> promptTokens,
        completion_tokens |-> completionTokens,
        total_tokens |-> totalTokens,
        cached_tokens |->
            Coalesce(coercePositiveNumber(GetIn(rawUsage, "prompt_tokens_details", "cached_tokens")),
            Coalesce(coercePositiveNumber(Get(rawUsage, "cached_tokens")), 0)),
        reasoning_tokens |->
            Coalesce(coercePositiveNumber(GetIn(rawUsage, "completion_tokens_details", "reasoning_tokens")),
            Coalesce(coercePositiveNumber(Get(rawUsage, "reasoning_tokens")), 0)),
        cost |-> CostOf(rawUsage)]
\* normalizeUsage(rawUsage)
normalizeUsage(rawUsage) ==
    LET promptTokens ==
            Coalesce(coercePositiveNumber(Get(rawUsage, "prompt_tokens")),
            Coalesce(coercePositiveNumber(GetIn(rawUsage, "usageMetadata", "promptTokenCount")), 0))
        completionTokens ==
            Coalesce(coercePositiveNumber(Get(rawUsage, "completion_tokens")),
            Coalesce(coercePositiveNumber(GetIn(rawUsage, "usageMetadata", "candidatesTokenCount")), 0))
        totalTokens ==
            Coalesce(coercePositiveNumber(Get(rawUsage, "total_tokens")),
            Coalesce(coercePositiveNumber(GetIn(rawUsage, "usageMetadata", "totalTokenCount")),
                     promptTokens + completionTokens))
    IN [prompt_tokens |-> promptTokens,
        completion_tokens |-> completionTokens,
        total_tokens |-> totalTokens,
        cached_tokens |->
            Coalesce(coercePositiveNumber(GetIn(rawUsage, "prompt_tokens_details", "cached_tokens")), 0),
        reasoning_tokens |->
            Coalesce(coercePositiveNumber(GetIn(rawUsage, "completion_tokens_details", "reasoning_tokens")), 0),
        cost |-> CostOf(rawUsage)]

\* the record normalizeUsage returns, as the JavaScript object it is: six
\* flat keys holding numbers, no nested details and no usageMetadata
AsObject(u) == [k \in DOMAIN u |-> Num(u[k])]

\* raw usage objects of both provider shapes, any entry possibly missing,
\* zero, negative, not finite or not a number
RawUsages ==
    [prompt_tokens : {Absent, Num(0), Num(MaxRawTokens)},
     completion_tokens : {Absent, Num(0), Num(MaxRawTokens)},
     total_tokens : {Absent, Num(0), Num(MaxRawTokens)},
     prompt_tokens_details : [cached_tokens : {Absent, NonFinite, Num(1)}],
     completion_tokens_details : [reasoning_tokens : {Absent, NonFinite, Num(1)}],
     cost : {Absent, Str, Num(-1), Num(0), Num(MaxRawTokens)},
     usageMetadata : [promptTokenCount : {Absent, Num(-1), Num(MaxRawTokens + 1)},
                      candidatesTokenCount : {Absent, Num(-1), Num(MaxRawTokens + 1)},
                      totalTokenCount : {Absent, Num(-1), Num(MaxRawTokens + 1)}]]

\* usage = normalizeUsage(completion.usage), and the result normalized again
ApplyNormalizeUsage ==
    /\ call.fn = "none"
    /\ \E x \in RawUsages :
          call' = [fn |-> "normalizeUsage", arg |-> x,
                   out |-> normalizeUsage(x),
                   again |-> normalizeUsage(AsObject(normalizeUsage(x)))]
    /\ UNCHANGED <<proc, limits, agents, events, totalUsage, chatUsage, cmd>>

\* truncate_len of rlm_config.yaml (default 5000, subagents.ts:42)
TRUNCATE_LEN == 25
\* how far beyond TRUNCATE_LEN the captured texts reach
MaxExcess == 2

\* text.slice(-n): the last n characters
SliceLast(text, n) == SubSeq(text, Len(text) - n + 1, Len(text))

\* truncateText taking the output that does not fit from the front
truncateTextHead(text) ==
    IF Len(text) > TRUNCATE_LEN
    THEN "[TRUNCATED: Last " \o ToString(TRUNCATE_LEN) \o " chars shown].. "
            \o SubSeq(text, 1, TRUNCATE_LEN)
    ELSE IF Len(text) = 0 THEN "[EMPTY OUTPUT]"
    ELSE "[FULL OUTPUT SHOWN]... " \o text
\* truncateText cutting from TRUNCATE_LEN characters on
truncateTextAtLen(text) ==
    IF Len(text) >= TRUNCATE_LEN
    THEN "[TRUNCATED: Last " \o ToString(TRUNCATE_LEN) \o " chars shown].. "
            \o SliceLast(text, TRUNCATE_LEN)
    ELSE IF Len(text) = 0 THEN "[EMPTY OUTPUT]"
    ELSE "[FULL OUTPUT SHOWN]... " \o text
\* truncateText(text)
truncateText(text) ==
    IF Len(text) > TRUNCATE_LEN
    THEN "[TRUNCATED: Last " \o ToString(TRUNCATE_LEN) \o " chars shown].. "
            \o SliceLast(text, TRUNCATE_LEN)
    ELSE IF Len(text) = 0 THEN "[EMPTY OUTPUT]"
    ELSE "[FULL OUTPUT SHOWN]... " \o text

\* a captured stdout of n characters, no two neighbours alike
RECURSIVE Stdout(_)
Stdout(n) == IF n = 0 THEN "" ELSE Stdout(n - 1) \o ToString(n % 10)
\* the captured texts: every stretch of a stdout of TRUNCATE_LEN + MaxExcess
\* characters, the empty one included
Texts ==
    {""} \cup {SubSeq(Stdout(TRUNCATE_LEN + MaxExcess), i, j) :
                  i \in 1..(TRUNCATE_LEN + MaxExcess), j \in 1..(TRUNCATE_LEN + MaxExcess)}

\* const truncatedText = truncateText(output), and the result truncated again
ApplyTruncateText ==
    /\ call.fn = "none"
    /\ \E t \in Texts :
          call' = [fn |-> "truncateText", arg |-> t,
                   out |-> truncateText(t),
                   again |-> truncateText(truncateText(t))]
    /\ UNCHANGED <<proc, limits, agents, events, totalUsage, chatUsage, cmd>>

\* --------------------------------------------- env and config strings
\* a `string | undefined`: <<>> is undefined, <<s>> the string s
Unset == <<>>
Val(s) == <<s>>

\* getEnvValue(name, getEnv): getEnv(name)?.trim(), undefined when empty
getEnvValue(name, getEnv) ==
    IF getEnv[name] = Unset \/ Trim(getEnv[name][1]) = "" THEN Unset
    ELSE Val(Trim(getEnv[name][1]))

DEFAULT_PRIMARY_MODEL == "gpt-5"
DEFAULT_SUB_MODEL == "gpt-5-codex-mini"
PRIMARY_FALLBACKS == <<"gpt-5", "gpt-5.1", "gpt-5.2", "gpt-5-codex">>
SUB_FALLBACKS == <<"gpt-5-codex-mini", "gpt-5.1-codex-mini", "gemini-2.5-flash">>

\* new Set(available)
SetOf(seq) == {seq[k] : k \in 1..Len(seq)}

\* for (const candidate of defaultCandidates) if (availableSet.has(candidate)):
\* the index of the first available candidate, 0 when there is none
FirstAvailable(candidates, availableSet) ==
    LET hits == {k \in 1..Len(candidates) : candidates[k] \in availableSet}
    IN  IF hits = {} THEN 0 ELSE CHOOSE k \in hits : \A j \in hits : k <= j

\* pickModel taking the fallback env value without looking it up in the
\* available list
pickModelTrustsEnv(role, requested, available, getEnv) ==
    LET availableSet == SetOf(available)
        fallbackEnvName == IF role = "primary" THEN "RLM_FALLBACK_PRIMARY"
                           ELSE "RLM_FALLBACK_SUB"
        fallbackFromEnv == getEnvValue(fallbackEnvName, getEnv)
        defaultCandidates == IF role = "primary" THEN PRIMARY_FALLBACKS ELSE SUB_FALLBACKS
        first == FirstAvailable(defaultCandidates, availableSet)
        head == "Requested " \o role \o " model '" \o requested \o "' is unavailable; using "
    IN  IF requested \in availableSet
        THEN [selected |-> requested, warning |-> Unset]
        ELSE IF fallbackFromEnv # Unset
        THEN [selected |-> fallbackFromEnv[1],
              warning |-> Val(head \o fallbackEnvName \o "='" \o fallbackFromEnv[1] \o "'.")]
        ELSE IF first # 0
        THEN [selected |-> defaultCandidates[first],
              warning |-> Val(head \o "fallback '" \o defaultCandidates[first] \o "'.")]
        ELSE [selected |-> available[1],
              warning |-> Val(head \o "first available model '" \o available[1] \o "'.")]
\* pickModel taking the first built-in fallback without looking it up in
\* the available list
pickModelFirstDefault(role, requested, available, getEnv) ==
    LET availableSet == SetOf(available)
        fallbackEnvName == IF role = "primary" THEN "RLM_FALLBACK_PRIMARY"
                           ELSE "RLM_FALLBACK_SUB"
        fallbackFromEnv == getEnvValue(fallbackEnvName, getEnv)
        defaultCandidates == IF role = "primary" THEN PRIMARY_FALLBACKS ELSE SUB_FALLBACKS
        head == "Requested " \o role \o " model '" \o requested \o "' is unavailable; using "
    IN  IF requested \in availableSet
        THEN [selected |-> requested, warning |-> Unset]
        ELSE IF fallbackFromEnv # Unset /\ fallbackFromEnv[1] \in availableSet
        THEN [selected |-> fallbackFromEnv[1],
              warning |-> Val(head \o fallbackEnvName \o "='" \o fallbackFromEnv[1] \o "'.")]
        ELSE [selected |-> defaultCandidates[1],
              warning |-> Val(head \o "fallback '" \o defaultCandidates[1] \o "'.")]
\* pickModel(role, requested, available, getEnv)
pickModel(role, requested, available, getEnv) ==
    LET availableSet == SetOf(available)
        fallbackEnvName == IF role = "primary" THEN "RLM_FALLBACK_PRIMARY"
                           ELSE "RLM_FALLBACK_SUB"
        fallbackFromEnv == getEnvValue(fallbackEnvName, getEnv)
        defaultCandidates == IF role = "primary" THEN PRIMARY_FALLBACKS ELSE SUB_FALLBACKS
        first == FirstAvailable(defaultCandidates, availableSet)
        head == "Requested " \o role \o " model '" \o requested \o "' is unavailable; using "
    IN  IF requested \in availableSet
        THEN [selected |-> requested, warning |-> Unset]
        ELSE IF fallbackFromEnv # Unset /\ fallbackFromEnv[1] \in availableSet
        THEN [selected |-> fallbackFromEnv[1],
              warning |-> Val(head \o fallbackEnvName \o "='" \o fallbackFromEnv[1] \o "'.")]
        ELSE IF first # 0
        THEN [selected |-> defaultCandidates[first],
              warning |-> Val(head \o "fallback '" \o defaultCandidates[first] \o "'.")]
        ELSE [selected |-> available[1],
              warning |-> Val(head \o "first available model '" \o available[1] \o "'.")]

\* resolveRuntimeModels(requested, available, getEnv)
resolveRuntimeModels(requested, available, getEnv) ==
    LET primary == pickModel("primary", requested.primaryAgent, available, getEnv)
        sub == pickModel("sub", requested.subAgent, available, getEnv)
    IN  [primaryAgent |-> primary.selected,
         subAgent |-> sub.selected,
         warnings |-> primary.warning \o sub.warning]

\* longest list of model ids the /models catalog returns
MaxAvailable == 2
\* ids a catalog can list
CatalogIds == {"gpt-5", "gpt-5.1", "gpt-5-codex-mini", "gemini-2.5-flash", "local-model"}
\* what fetchAvailableModels returns: a non-empty list of ids
AvailableLists == UNION {[1..n -> CatalogIds] : n \in 1..MaxAvailable}
\* the requested pair resolveModelNames hands over
RequestedPairs ==
    [primaryAgent : {"gpt-5", "local-model", "missing-primary"},
     subAgent : {"gpt-5-codex-mini", "local-model", "missing-sub"}]
\* the two fallback env vars: unset, blank, or an id, possibly padded
FallbackEnvs ==
    [{"RLM_FALLBACK_PRIMARY", "RLM_FALLBACK_SUB"} ->
        {Unset, Val(" "), Val(" gpt-5.1 "), Val("local-model")}]

\* resolveRuntimeModels(REQUESTED_MODELS, available) in the preflight
ApplyResolveRuntimeModels ==
    /\ call.fn = "none"
    /\ \E requested \in RequestedPairs, available \in AvailableLists, env \in FallbackEnvs :
          call' = [fn |-> "resolveRuntimeModels",
                   arg |-> [requested |-> requested, available |-> available, env |-> env],
                   out |-> resolveRuntimeModels(requested, available, env)]
    /\ UNCHANGED <<proc, limits, agents, events, totalUsage, chatUsage, cmd>>

\* a || b on `string | undefined`: the empty string is falsy too
OrElse(a, b) == IF a # Unset /\ a[1] # "" THEN a ELSE b

\* resolveModelNames letting the config key win over the env var
resolveModelNamesConfigFirst(config, getEnv) ==
    [primaryAgent |->
        OrElse(config.primary_agent,
        OrElse(getEnvValue("RLM_PRIMARY_AGENT", getEnv), Val(DEFAULT_PRIMARY_MODEL)))[1],
     subAgent |->
        OrElse(config.sub_agent,
        OrElse(getEnvValue("RLM_SUB_AGENT", getEnv), Val(DEFAULT_SUB_MODEL)))[1]]
\* resolveModelNames(config, getEnv)
resolveModelNames(config, getEnv) ==
    [primaryAgent |->
        OrElse(getEnvValue("RLM_PRIMARY_AGENT", getEnv),
        OrElse(config.primary_agent, Val(DEFAULT_PRIMARY_MODEL)))[1],
     subAgent |->
        OrElse(getEnvValue("RLM_SUB_AGENT", getEnv),
        OrElse(config.sub_agent, Val(DEFAULT_SUB_MODEL)))[1]]

\* primary_agent / sub_agent of rlm_config.yaml: absent, empty or a name
ModelConfigs ==
    [primary_agent : {Unset, Val(""), Val("cfg-primary")},
     sub_agent : {Unset, Val(""), Val("cfg-sub")}]
\* RLM_PRIMARY_AGENT / RLM_SUB_AGENT: unset, empty, blank or a padded name
ModelEnvs ==
    [{"RLM_PRIMARY_AGENT", "RLM_SUB_AGENT"} ->
        {Unset, Val(""), Val("  "), Val(" env-model ")}]

\* const REQUESTED_MODELS = resolveModelNames(_config)
ApplyResolveModelNames ==
    /\ call.fn = "none"
    /\ \E config \in ModelConfigs, env \in ModelEnvs :
          call' = [fn |-> "resolveModelNames",
                   arg |-> [config |-> config, env |-> env],
                   out |-> resolveModelNames(config, env)]
    /\ UNCHANGED <<proc, limits, agents, events, totalUsage, chatUsage, cmd>>

\* s.endsWith(suffix)
EndsWith(s, suffix) ==
    Len(s) >= Len(suffix) /\ SubSeq(s, Len(s) - Len(suffix) + 1, Len(s)) = suffix

\* s.replace(/\/+$/, ""): all trailing slashes removed
RECURSIVE StripSlashes(_)
StripSlashes(s) == IF EndsWith(s, "/") THEN StripSlashes(SubSeq(s, 1, Len(s) - 1)) ELSE s

\* resolveProxyClientConfig removing a single trailing slash
resolveProxyClientConfigOneSlash(getEnv) ==
    LET apiKey == getEnvValue("RLM_MODEL_API_KEY", getEnv)
        baseUrl == getEnvValue("RLM_MODEL_BASE_URL", getEnv)
    IN  IF apiKey = Unset
        THEN [threw |-> "Missing required env var RLM_MODEL_API_KEY"]
        ELSE IF baseUrl = Unset
        THEN [threw |-> "Missing required env var RLM_MODEL_BASE_URL"]
        ELSE LET u == baseUrl[1]
                 rawBaseUrl == IF EndsWith(u, "/") THEN SubSeq(u, 1, Len(u) - 1) ELSE u
             IN  IF ~EndsWith(rawBaseUrl, "/v1")
                 THEN [threw |-> "RLM_MODEL_BASE_URL must point to the OpenAI-compatible /v1 endpoint"]
                 ELSE [threw |-> "", apiKey |-> apiKey[1], baseURL |-> rawBaseUrl]
\* resolveProxyClientConfig(getEnv), with readRequiredEnv for both env vars
resolveProxyClientConfig(getEnv) ==
    LET apiKey == getEnvValue("RLM_MODEL_API_KEY", getEnv)
        baseUrl == getEnvValue("RLM_MODEL_BASE_URL", getEnv)
    IN  IF apiKey = Unset
        THEN [threw |-> "Missing required env var RLM_MODEL_API_KEY"]
        ELSE IF baseUrl = Unset
        THEN [threw |-> "Missing required env var RLM_MODEL_BASE_URL"]
        ELSE IF ~EndsWith(StripSlashes(baseUrl[1]), "/v1")
        THEN [threw |-> "RLM_MODEL_BASE_URL must point to the OpenAI-compatible /v1 endpoint"]
        ELSE [threw |-> "", apiKey |-> apiKey[1], baseURL |-> StripSlashes(baseUrl[1])]

\* longest base URL written over the characters h / v 1
MaxUrlLen == 4
RECURSIVE UrlsOfLen(_)
UrlsOfLen(n) ==
    IF n = 0 THEN {""}
    ELSE {u \o c : u \in UrlsOfLen(n - 1), c \in {"h", "/", "v", "1"}}
\* RLM_MODEL_BASE_URL: unset, blank, the URL of the test suite, padded, or
\* any string of up to MaxUrlLen characters
BaseUrls ==
    {Unset, Val("  "), Val("http://127.0.0.1:8317/v1/"), Val(" http://h/v1// "),
     Val("http://h/v1 /"), Val("http://h/v1/models")}
    \cup {Val(u) : u \in UNION {UrlsOfLen(n) : n \in 0..MaxUrlLen}}
\* RLM_MODEL_API_KEY: unset, empty, blank or a padded key
ApiKeys == {Unset, Val(""), Val(" "), Val(" test-key ")}

\* const { apiKey, baseURL } = resolveProxyClientConfig()
ApplyResolveProxyClientConfig ==
    /\ call.fn = "none"
    /\ \E key \in ApiKeys, url \in BaseUrls :
          LET env == [RLM_MODEL_API_KEY |-> key, RLM_MODEL_BASE_URL |-> url] IN
          call' = [fn |-> "resolveProxyClientConfig", arg |-> env,
                   out |-> resolveProxyClientConfig(env)]
    /\ UNCHANGED <<proc, limits, agents, events, totalUsage, chatUsage, cmd>>

\* resolveTokenLimits(config)
resolveTokenLimits(config) ==
    [maxPromptTokens |-> coercePositiveNumber(Get(config, "max_prompt_tokens")),
     maxCompletionTokens |-> coercePositiveNumber(Get(config, "max_completion_tokens"))]

\* max_prompt_tokens / max_completion_tokens of rlm_config.yaml: absent,
\* zero, negative, not finite, not a number, or a positive cap
TokenConfigs ==
    [max_prompt_tokens : {Absent, Num(0), Num(-1), NonFinite, Str, Num(TokenCap)},
     max_completion_tokens : {Absent, Num(0), Num(-1), NonFinite, Str, Num(TokenCap)}]
\* accumulated usage totals up to one token above the cap
UsageTotals ==
    [prompt_tokens : 0..(TokenCap + 1), completion_tokens : 0..(TokenCap + 1)]

\* resolveTokenLimits(_config) at module load, and the two budget checks
\* of the turn loop on an accumulated total
ApplyResolveTokenLimits ==
    /\ call.fn = "none"
    /\ \E config \in TokenConfigs, total \in UsageTotals :
          LET lim == resolveTokenLimits(config) IN
          call' = [fn |-> "resolveTokenLimits",
                   arg |-> [config |-> config, totalUsage |-> total],
                   out |-> lim,
                   promptBudgetError |-> PromptBudgetExceeded(total, lim),
                   completionBudgetError |-> CompletionBudgetExceeded(total, lim)]
    /\ UNCHANGED <<proc, limits, agents, events, totalUsage, chatUsage, cmd>>

\* ------------------------------------------------ cli_common.ts
\* EXIT_CODES
EXIT_GENERIC == 1
EXIT_USAGE == 2
EXIT_CONFIG == 3
EXIT_PROXY == 4
EXIT_MODEL == 5
EXIT_OUTPUT_WRITE == 7
EXIT_INTERRUPTED == 130

\* CliErrorKind
CliErrorKinds ==
    {"usage", "config", "proxy", "model", "runtime", "output",
     "interrupted", "generic"}
\* new CliError(kind, message): a message is the sequence of its words
CliError(kind, message) == [cli |-> TRUE, kind |-> kind, message |-> message]
\* new Error(message), or any other thrown value that is not a CliError
PlainError(message) == [cli |-> FALSE, kind |-> "Error", message |-> message]
NoError == [cli |-> FALSE, kind |-> "none", message |-> <<>>]

\* exitCodeForError with `case "output"` returning EXIT_CODES.RUNTIME
exitCodeForErrorOutputAsRuntime(err) ==
    IF ~err.cli THEN EXIT_GENERIC
    ELSE CASE err.kind = "usage" -> EXIT_USAGE
           [] err.kind = "config" -> EXIT_CONFIG
           [] err.kind = "proxy" -> EXIT_PROXY
           [] err.kind = "model" -> EXIT_MODEL
           [] err.kind = "runtime" -> EXIT_RUNTIME
           [] err.kind = "output" -> EXIT_RUNTIME
           [] err.kind = "interrupted" -> EXIT_INTERRUPTED
           [] OTHER -> EXIT_GENERIC

\* exitCodeForError(err)
exitCodeForError(err) ==
    IF ~err.cli THEN EXIT_GENERIC
    ELSE CASE err.kind = "usage" -> EXIT_USAGE
           [] err.kind = "config" -> EXIT_CONFIG
           [] err.kind = "proxy" -> EXIT_PROXY
           [] err.kind = "model" -> EXIT_MODEL
           [] err.kind = "runtime" -> EXIT_RUNTIME
           [] err.kind = "output" -> EXIT_OUTPUT_WRITE
           [] err.kind = "interrupted" -> EXIT_INTERRUPTED
           [] OTHER -> EXIT_GENERIC

\* the values exitCodeForError is applied to: a CliError of every kind, and
\* thrown values that are not a CliError (an Error, whatever its `kind`
\* property says)
ThrownValues ==
    {CliError(k, <<"m">>) : k \in CliErrorKinds}
        \cup {PlainError(<<"m">>), [PlainError(<<"m">>) EXCEPT !.kind = "usage"]}

ApplyExitCodeForError ==
    /\ call.fn = "none"
    /\ \E err \in ThrownValues :
          call' = [fn |-> "exitCodeForError", arg |-> err,
                   out |-> exitCodeForError(err)]
    /\ UNCHANGED <<proc, limits, agents, events, totalUsage, chatUsage, cmd>>

\* values a promise can reject with: an Error, a thrown string, and the
\* falsy `undefined` of a bare Promise.reject()
JsError(message) == [type |-> "Error", message |-> message]
JsString(message) == [type |-> "string", message |-> message]
JsUndefined == [type |-> "undefined", message |-> <<>>]
RejectedValues ==
    {JsError(<<"boom">>), JsError(<<>>), JsString(<<"boom">>), JsString(<<>>),
     JsUndefined}
\* `if (primaryError)`: undefined and the empty string are falsy, every
\* object is truthy
JsTruthy(v) == v.type = "Error" \/ (v.type = "string" /\ v.message # <<>>)
\* String(finalizeError)
JsToString(v) ==
    CASE v.type = "Error" ->
            IF v.message = <<>> THEN <<"Error">> ELSE <<"Error:">> \o v.message
      [] v.type = "string" -> v.message
      [] OTHER -> <<"undefined">>
\* the outcome of an awaited promise: fulfilled with a value or rejected
Fulfilled(value) == [threw |-> FALSE, value |-> value]
Rejected(err) == [threw |-> TRUE, value |-> err]
\* run() fulfils with a result, finalize() with undefined
RunOutcomes == {Fulfilled(JsString(<<"result">>))} \cup {Rejected(e) : e \in RejectedValues}
FinalizeOutcomes == {Fulfilled(JsUndefined)} \cup {Rejected(e) : e \in RejectedValues}

\* withFinalizer(run, finalize), given what the two promises settle with:
\* the completion the caller observes and the number of finalize() calls
withFinalizer(run, finalize) ==
    LET primaryError == IF run.threw THEN run.value ELSE JsUndefined
        finalizeCalls == 1
    IN  IF ~finalize.threw
        THEN [threw |-> run.threw, value |-> run.value,
              finalizeCalls |-> finalizeCalls]
        ELSE IF JsTruthy(primaryError)
             THEN [threw |-> TRUE,
                   value |-> IF primaryError.type = "Error"
                             THEN JsError(primaryError.message
                                            \o <<"Cleanup warning:">>
                                            \o JsToString(finalize.value))
                             ELSE primaryError,
                   finalizeCalls |-> finalizeCalls]
             ELSE [threw |-> TRUE, value |-> finalize.value,
                   finalizeCalls |-> finalizeCalls]

ApplyWithFinalizer ==
    /\ call.fn = "none"
    /\ \E run \in RunOutcomes, finalize \in FinalizeOutcomes :
          call' = [fn |-> "withFinalizer",
                   arg |-> [run |-> run, finalize |-> finalize],
                   out |-> withFinalizer(run, finalize)]
    /\ UNCHANGED <<proc, limits, agents, events, totalUsage, chatUsage, cmd>>

PureInit == Init /\ limits.maxPromptTokens = Undefined /\ totalUsage = ZeroUsage

PureNext ==
    \/ ApplyNormalizeUsage
    \/ ApplyTruncateText
    \/ ApplyResolveRuntimeModels
    \/ ApplyResolveModelNames
    \/ ApplyResolveProxyClientConfig
    \/ ApplyResolveTokenLimits
    \/ ApplyExitCodeForError
    \/ ApplyWithFinalizer

PureSpec == PureInit /\ [][PureNext]_vars

\* ---------------------------------------------------------- cli.ts
\* arg.startsWith("-")
StartsWithDash(arg) == Len(arg) > 0 /\ SubSeq(arg, 1, 1) = "-"
\* argv.slice(n)
Slice(argv, n) == SubSeq(argv, n + 1, Len(argv))

\* defaultGlobalFlags(): the flags runCli reads (noColor, quiet and verbose
\* change nothing the process writes or returns)
defaultGlobalFlags == [help |-> FALSE, version |-> FALSE, json |-> FALSE]

\* the ParsedCli parseGlobalArgs returns, or the CliError it throws;
\* i is the 1-based position the loop stopped at
ParsedCli(global, argv, i) ==
    [error |-> NoError, global |-> global,
     command |-> IF i <= Len(argv) THEN Val(argv[i]) ELSE Unset,
     args |-> Slice(argv, i)]
UsageError(word) == CliError("usage", <<"Usage", word>>)
ThrownCli(err) ==
    [error |-> err, global |-> defaultGlobalFlags, command |-> Unset,
     args |-> <<>>]

RECURSIVE parseGlobalArgsFrom(_, _, _)
parseGlobalArgsFrom(argv, i, global) ==
    IF i > Len(argv) \/ ~StartsWithDash(argv[i]) THEN ParsedCli(global, argv, i)
    ELSE IF argv[i] = "--" THEN ParsedCli(global, argv, i + 1)
    ELSE IF argv[i] \in {"-h", "--help"}
         THEN parseGlobalArgsFrom(argv, i + 1, [global EXCEPT !.help = TRUE])
    ELSE IF argv[i] = "--version"
         THEN parseGlobalArgsFrom(argv, i + 1, [global EXCEPT !.version = TRUE])
    ELSE IF argv[i] = "--json"
         THEN parseGlobalArgsFrom(argv, i + 1, [global EXCEPT !.json = TRUE])
    ELSE IF argv[i] \in {"--no-color", "-q", "--quiet", "-v", "--verbose", "--plain"}
         THEN parseGlobalArgsFrom(argv, i + 1, global)
    ELSE ThrownCli(UsageError("global"))
parseGlobalArgs(argv) == parseGlobalArgsFrom(argv, 1, defaultGlobalFlags)

\* the options parseRunArgs returns, or the CliError it throws
RunOpts(prefix, outputFile, jsonMode) ==
    [error |-> NoError, prefix |-> prefix, outputFile |-> outputFile,
     jsonMode |-> jsonMode]
NoOpts == RunOpts(Unset, Unset, FALSE)
ThrownRun(err) == [NoOpts EXCEPT !.error = err]
\* !value || value.startsWith("-") for value = args[i + 1]
NoValueAt(args, i) == i > Len(args) \/ args[i] = "" \/ StartsWithDash(args[i])

RECURSIVE parseRunArgsFrom(_, _, _)
parseRunArgsFrom(args, i, opts) ==
    IF i > Len(args) THEN opts
    ELSE IF args[i] = "--prefix"
         THEN IF NoValueAt(args, i + 1) THEN ThrownRun(UsageError("prefix"))
              ELSE parseRunArgsFrom(args, i + 2, [opts EXCEPT !.prefix = Val(args[i + 1])])
    ELSE IF args[i] = "--output"
         THEN IF NoValueAt(args, i + 1) THEN ThrownRun(UsageError("output"))
              ELSE parseRunArgsFrom(args, i + 2, [opts EXCEPT !.outputFile = Val(args[i + 1])])
    ELSE IF args[i] = "--json"
         THEN parseRunArgsFrom(args, i + 1, [opts EXCEPT !.jsonMode = TRUE])
    ELSE ThrownRun(UsageError("run"))
parseRunArgs(args, inheritedJson) ==
    parseRunArgsFrom(args, 1, RunOpts(Unset, Unset, inheritedJson))

\* value.includes(part)
Includes(value, part) ==
    \E k \in 1..(Len(value) - Len(part) + 1) :
        SubSeq(value, k, k + Len(part) - 1) = part
\* /^[A-Za-z0-9._-]+$/ over the characters the prefixes of the model use
PrefixChars == {"a", "b", "d", "e", "m", "o", ".", "_", "-"}
\* validatePrefix(prefix) returns (TRUE) or throws a usage CliError (FALSE)
validatePrefix(prefix) ==
    /\ Len(prefix) >= 1
    /\ Len(prefix) <= 64
    /\ \A k \in 1..Len(prefix) : SubSeq(prefix, k, k) \in PrefixChars
    /\ ~Includes(prefix, "..")
    /\ ~Includes(prefix, "/")
    /\ ~Includes(prefix, "\\")

\* smokeCommand's argument checks: the CliError thrown, or NoError
smokeArgsError(args) ==
    IF \E k \in 1..Len(args) : args[k] \in {"-h", "--help"} THEN UsageError("smoke")
    ELSE IF \E k \in 1..Len(args) : args[k] # "--json" THEN UsageError("smoke")
    ELSE NoError

\* the argument checks of logsCommand alone, the mode left to be checked
\* once the file is parsed
logsArgsErrorModeUnchecked(args) ==
    IF Len(args) = 0 \/ args[1] # "view" THEN CliError("usage", <<"Usage", "logs">>)
    ELSE IF Len(args) < 2 \/ args[2] = "" THEN CliError("usage", <<"Usage", "logs">>)
    ELSE IF Len(args) > 3 THEN CliError("usage", <<"Usage", "logs">>)
    ELSE NoError

\* logsCommand's argument checks followed by those runLogsViewCommand makes
\* before it calls parseLogFile: the CliError thrown, or NoError
LogModes == {"--tree", "--stats", "--linear"}
logsArgsError(args) ==
    IF Len(args) = 0 \/ args[1] # "view" THEN UsageError("logs")
    ELSE IF Len(args) < 2 \/ args[2] = "" THEN UsageError("logs")
    ELSE IF Len(args) > 3 THEN UsageError("logs")
    ELSE IF Len(args) = 3 /\ args[3] \notin LogModes THEN UsageError("mode")
    ELSE NoError

\* completionCommand's argument check
Shells == {"bash", "zsh", "fish"}
completionArgsError(args) ==
    IF Len(args) = 0 \/ args[1] \notin Shells THEN UsageError("completion")
    ELSE NoError

\* ================================================================ claims
\* the events of run r, in emission order
RunEvents(r) == SelectSeq(events, LAMBDA e : e.run_id = r)
\* the step events of run r
RunSteps(r) == SelectSeq(events, LAMBDA e : e.run_id = r /\ e.event_type = "step")
\* agent a has left subagent()
Finished(a) == agents[a].pc \in {"returned", "failed"}
\* runSubagentCommand is past its try / catch
AfterTry == cmd.pc \in {"finally", "flushed", "writing", "done"}
              \/ (cmd.pc = "threw" /\ cmd.thrown = "output")

\* C1: with a cap set, whenever an agent executes extracted code, has a
\* chat call in flight that it started after its budget check, or the root
\* has returned a result, the global prompt (completion) total is <= the cap.
C1_BudgetHeldAtObservablePoints ==
    \A a \in Ids :
        (agents[a].pc \in {"exec", "chat"} \/ (a = 1 /\ agents[a].pc = "returned"))
        => /\ ~PromptBudgetExceeded(totalUsage, limits)
           /\ ~CompletionBudgetExceeded(totalUsage, limits)

\* C2: every agent issues at most MAX_CALLS chat calls, one per turn of its
\* loop, a turn without a repl block included: at the loop head the number
\* of calls equals the number of turns done, inside a turn it is one more.
C2_AtMostMaxCalls ==
    \A a \in Ids :
        /\ agents[a].calls <= MAX_CALLS
        /\ agents[a].pc = "gen" => agents[a].calls = agents[a].i
        /\ agents[a].pc \in {"chat", "exec", "await"} => agents[a].calls = agents[a].i + 1

\* an agent has used all its MAX_CALLS calls and its stdout buffer still is
\* the seed output: none of its turns had a repl block
C2_Witness ==
    \E a \in Ids :
        /\ agents[a].pc = "gen"
        /\ agents[a].i = MAX_CALLS
        /\ agents[a].calls = MAX_CALLS
        /\ agents[a].stdoutBuffer = <<[kind |-> "seed", run_id |-> a, turn |-> 0]>>

\* C3: no agent exists at a depth above MAX_DEPTH; an llm_query call of an
\* agent at depth d with d + 1 > MAX_DEPTH creates no agent, emits no event,
\* starts no chat call and fails, and the caller's stdout buffer of that
\* turn holds the MAXIMUM DEPTH REACHED error line.
C3_DepthCap ==
    /\ [](\A a \in Ids :
            /\ agents[a].depth <= MAX_DEPTH
            /\ (\E k \in 1..Len(agents[a].queryLog) : agents[a].queryLog[k] = NoRun)
               => \E n \in 1..Len(agents[a].stdoutBuffer) :
                      /\ agents[a].stdoutBuffer[n].kind = "MaxDepthError"
                      /\ agents[a].stdoutBuffer[n].run_id = a)
    /\ [][\A a \in Ids :
            (/\ Len(agents'[a].queryLog) = Len(agents[a].queryLog) + 1
             /\ agents[a].depth + 1 > MAX_DEPTH)
            => /\ Len(agents') = Len(agents)
               /\ events' = events
               /\ \A b \in Ids : agents'[b].calls = agents[b].calls
               /\ agents'[a].queryLog[Len(agents'[a].queryLog)] = NoRun
               /\ agents'[a].childErr = "max_depth"]_vars

C3_Witness ==
    \E a \in Ids :
        /\ agents[a].depth = MAX_DEPTH
        /\ agents[a].pc = "gen"
        /\ \E k \in 1..Len(agents[a].queryLog) : agents[a].queryLog[k] = NoRun
        /\ \E n \in 1..Len(agents[a].stdoutBuffer) :
              agents[a].stdoutBuffer[n].kind = "MaxDepthError"

\* C4: an llm_query call of agent A at depth d below the cap creates exactly
\* one agent, with parent_run_id = A's run_id, depth d + 1 and A's model
\* pair, which A awaits or leaves pending; agents are created in no other
\* way after the root; and the value the awaited llm_query hands back to A
\* is that child's result.
C4_ChildOfQuery ==
    /\ [](\A c \in Ids :
            agents[c].parent_run_id # NoRun
            => /\ agents[c].parent_run_id \in Ids
               /\ agents[c].depth = agents[agents[c].parent_run_id].depth + 1
               /\ agents[c].models = agents[agents[c].parent_run_id].models)
    /\ [][/\ \A a \in Ids :
              /\ (/\ Len(agents'[a].queryLog) = Len(agents[a].queryLog) + 1
                  /\ agents[a].depth < MAX_DEPTH)
                 => /\ Len(agents') = Len(agents) + 1
                    /\ agents'[Len(agents')].parent_run_id = a
                    /\ agents'[Len(agents')].depth = agents[a].depth + 1
                    /\ agents'[Len(agents')].models = agents[a].models
                    /\ agents'[a].pc \in {"await", "exec"}
                    /\ agents'[a].pc = "await" => agents'[a].waitingFor = Len(agents')
              /\ (/\ agents'[a].childVal # agents[a].childVal
                  /\ agents'[a].pc \notin {"returned", "failed"})
                 => /\ agents[a].waitingFor \in Ids
                    /\ agents[agents[a].waitingFor].pc = "returned"
                    /\ agents[agents[a].waitingFor].parent_run_id = a
                    /\ agents'[a].childVal = agents[agents[a].waitingFor].result
          /\ (Len(agents') # Len(agents) /\ Len(agents) >= 1)
             => /\ Len(agents') = Len(agents) + 1
                /\ \E a \in Ids :
                      Len(agents'[a].queryLog) = Len(agents[a].queryLog) + 1]_vars

C4_Witness ==
    \E a \in Ids :
        /\ agents[a].pc = "exec"
        /\ agents[a].lastChild # NoRun
        /\ agents[agents[a].lastChild].parent_run_id = a
        /\ agents[agents[a].lastChild].depth = agents[a].depth + 1
        /\ agents[agents[a].lastChild].result # None
        /\ agents[a].finalResult = agents[agents[a].lastChild].result

\* C5: per run_id, in emission order: run_start is the first event and
\* occurs once; the step events carry 0, 1, 2, ... without gap or repeat;
\* final_result occurs at most once and only as the last event of the run.
C5_EventOrder ==
    \A r \in Ids :
        LET E == RunEvents(r)
            S == RunSteps(r)
        IN  /\ Len(E) >= 1
            /\ E[1].event_type = "run_start"
            /\ \A k \in 2..Len(E) : E[k].event_type # "run_start"
            /\ \A k \in 1..Len(S) : S[k].step = k - 1
            /\ \A k \in 1..Len(E) : E[k].event_type = "final_result" => k = Len(E)

C5_Witness ==
    \E r \in Ids :
        /\ r > 1
        /\ Len(RunSteps(r)) = MAX_CALLS + 1
        /\ RunEvents(r)[Len(RunEvents(r))].event_type = "final_result"
        /\ Finished(1)

\* C6: when the execution of a turn ends with __final_result__ defined
\* (not None) the agent logs the step of that turn, then final_result, and
\* returns that value without a further chat call; when it ends with
\* __final_result__ unset or None the agent does not return but goes to the
\* next turn; an agent returns only this way and does nothing afterwards.
C6_ReturnsAtFirstFinal ==
    [][\A a \in Ids :
         /\ (agents[a].pc = "exec" /\ agents'[a].pc \notin {"exec", "await"})
            => IF agents[a].finalResult # None
               THEN /\ agents'[a].pc = "returned"
                    /\ agents'[a].result = agents[a].finalResult
                    /\ agents'[a].calls = agents[a].calls
                    /\ events' = events \o
                           <<[run_id |-> a, event_type |-> "step",
                              step |-> agents[a].i + 1],
                             FinalResultEvent(a)>>
               ELSE /\ agents'[a].pc = "gen"
                    /\ agents'[a].i = agents[a].i + 1
                    /\ agents'[a].result = None
         /\ (agents'[a].pc = "returned" /\ agents[a].pc # "returned")
            => agents[a].pc = "exec"
         /\ agents[a].pc = "returned" => agents'[a] = agents[a]]_vars

C6_Witness ==
    \E a \in Ids :
        /\ agents[a].pc = "returned"
        /\ agents[a].i = 1
        /\ agents[a].calls = 2
        /\ agents[a].result # None

\* C7: a failure of the turn loop of any agent of the tree (budget,
\* MAX_CALLS exhaustion, chat client) ends the invocation with that failure:
\* the root does not return a result, and runSubagentCommand reports that
\* error, null results and exit code 6.
C7_AnyFailureEndsInvocation ==
    \A a \in Ids :
        agents[a].pc = "failed"
        => /\ agents[1].pc # "returned"
           /\ AfterTry => (cmd.fatalError = agents[a].error /\ cmd.out = None)
           /\ cmd.pc = "done" => cmd.exitCode = EXIT_RUNTIME

\* C8: once an agent's call has completed, on any exit path, the sandbox
\* it opened has been released.
C8_SandboxReleasedOnExit ==
    \A a \in Ids : Finished(a) => agents[a].sandbox # "open"

\* C9 as stated: every invocation of runSubagentCommand that has ended has
\* called Logger.flush exactly once.
C9_FlushOncePerInvocation ==
    cmd.pc \in {"done", "threw"} => cmd.flushCount = 1

\* C9 amended: an invocation whose prefix passes validatePrefix calls
\* Logger.flush exactly once, whether the root agent returned or failed,
\* after the root agent has finished and before the log file path is read
\* and any output is produced; an invocation rejected by validatePrefix
\* starts no agent and does not flush.
C9_FlushOnceAfterRoot ==
    /\ cmd.pc \in {"init", "running", "finally"} => cmd.flushCount = 0
    /\ cmd.pc = "finally" => Finished(1)
    /\ (cmd.pc \in {"flushed", "writing", "done"} \/ cmd.thrown = "output")
       => (cmd.flushCount = 1 /\ Finished(1))
    /\ (cmd.logFileRead \/ cmd.outputWritten \/ cmd.reported) => cmd.flushCount = 1
    /\ cmd.thrown = "usage" => (cmd.flushCount = 0 /\ agents = <<>>)

C9_Witness ==
    /\ cmd.pc = "done"
    /\ cmd.fatalError # "none"
    /\ cmd.flushCount = 1
    /\ cmd.outputWritten

\* C10: an agent whose MAX_CALLS turns all ended without a final result
\* and without a budget violation fails with the exhaustion error, after
\* exactly MAX_CALLS chat calls, and never returns a value.
C10_ExhaustionFails ==
    \A a \in Ids :
        /\ agents[a].i >= MAX_CALLS
           => /\ agents[a].pc \in {"gen", "failed"}
              /\ agents[a].pc = "failed" => agents[a].error = "max_calls"
              /\ agents[a].calls = MAX_CALLS
              /\ agents[a].result = None
        /\ agents[a].error = "max_calls"
           => (agents[a].pc = "failed" /\ agents[a].i = MAX_CALLS)

C10_Witness ==
    /\ agents # <<>>
    /\ agents[1].error = "max_calls"
    /\ agents[1].calls = MAX_CALLS
    /\ cmd.fatalError = "max_calls"
    /\ cmd.exitCode = EXIT_RUNTIME

\* C13 as stated: normalizing the record normalizeUsage returned gives that
\* same record, in all six fields.
C13_NormalizeUsageIdempotent ==
    call.fn = "normalizeUsage" => call.again = call.out

\* C13 amended: normalizing the record normalizeUsage returned keeps
\* prompt_tokens, completion_tokens, total_tokens and cost; cached_tokens
\* and reasoning_tokens, which are read only from the nested
\* prompt_tokens_details / completion_tokens_details that the returned
\* record does not have, come out as 0.
C13_IdempotentOutsideDetails ==
    call.fn = "normalizeUsage"
    => /\ call.again.prompt_tokens = call.out.prompt_tokens
       /\ call.again.completion_tokens = call.out.completion_tokens
       /\ call.again.total_tokens = call.out.total_tokens
       /\ call.again.cost = call.out.cost
       /\ call.again.cached_tokens = 0
       /\ call.again.reasoning_tokens = 0

C13_Witness ==
    /\ call.fn = "normalizeUsage"
    /\ call.out.prompt_tokens > 0
    /\ call.out.total_tokens > call.out.prompt_tokens + call.out.completion_tokens
    /\ call.out.cached_tokens > 0
    /\ call.out.reasoning_tokens > 0
    /\ call.out.cost > 0
    /\ call.again.cached_tokens = 0

\* C19: the record normalizeUsage returns holds, for each token field,
\* the flat value when that is a finite number > 0, else the usageMetadata
\* count when that is a finite number > 0, else 0 (for total_tokens: else
\* prompt_tokens + completion_tokens); cached_tokens / reasoning_tokens are
\* the nested detail when it is a finite number > 0, else 0; cost is the
\* flat cost when it is a finite number > 0, else 0.
C19_CanonicalRecord ==
    call.fn = "normalizeUsage"
    => LET x == call.arg
           Used(v) == v[1] = "number" /\ v[2] > 0
           Pick(flat, meta, dflt) ==
               IF Used(flat) THEN flat[2] ELSE IF Used(meta) THEN meta[2] ELSE dflt
       IN  /\ call.out.prompt_tokens =
                 Pick(x.prompt_tokens, x.usageMetadata.promptTokenCount, 0)
           /\ call.out.completion_tokens =
                 Pick(x.completion_tokens, x.usageMetadata.candidatesTokenCount, 0)
           /\ call.out.total_tokens =
                 Pick(x.total_tokens, x.usageMetadata.totalTokenCount,
                      call.out.prompt_tokens + call.out.completion_tokens)
           /\ call.out.cached_tokens =
                 Pick(x.prompt_tokens_details.cached_tokens, Absent, 0)
           /\ call.out.reasoning_tokens =
                 Pick(x.completion_tokens_details.reasoning_tokens, Absent, 0)
           /\ call.out.cost = Pick(x.cost, Absent, 0)
           /\ DOMAIN call.out = {"prompt_tokens", "completion_tokens", "total_tokens",
                                 "cached_tokens", "reasoning_tokens", "cost"}

\* C14 as stated: truncating the text truncateText returned gives that
\* same text, for every captured text.
C14_TruncationIdempotent ==
    call.fn = "truncateText" => call.again = call.out

\* C14 amended: truncating the text truncateText returned gives that same
\* text exactly when the captured text is longer than TRUNCATE_LEN; for an
\* empty or shorter text the second truncation differs, because it puts a
\* prefix in front of the first result or cuts it to its last TRUNCATE_LEN
\* characters.
C14_IdempotentOnlyWhenTruncated ==
    call.fn = "truncateText"
    => /\ (call.again = call.out) <=> (Len(call.arg) > TRUNCATE_LEN)
       /\ Len(call.arg) = 0
          => call.again = truncateText("[EMPTY OUTPUT]")
       /\ Len(call.arg) \in 1..TRUNCATE_LEN
          => \/ call.again = "[FULL OUTPUT SHOWN]... " \o call.out
             \/ /\ Len(call.out) > TRUNCATE_LEN
                /\ call.again = "[TRUNCATED: Last " \o ToString(TRUNCATE_LEN)
                                   \o " chars shown].. "
                                   \o SubSeq(call.out, Len(call.out) - TRUNCATE_LEN + 1,
                                             Len(call.out))

C14_Witness ==
    /\ call.fn = "truncateText"
    /\ Len(call.arg) = TRUNCATE_LEN + 1
    /\ call.again = call.out
    /\ Len(call.out) > TRUNCATE_LEN + 1

\* C15: an empty text gives "[EMPTY OUTPUT]"; a text of 1..TRUNCATE_LEN
\* characters gives the full-output prefix and then the text, character by
\* character; a text of more than TRUNCATE_LEN characters gives the
\* truncated prefix and then exactly TRUNCATE_LEN characters, which are the
\* last TRUNCATE_LEN characters of the text in their order.
C15_BranchByLength ==
    call.fn = "truncateText"
    => LET t == call.arg
           n == Len(call.arg)
           full == "[FULL OUTPUT SHOWN]... "
           cut == "[TRUNCATED: Last " \o ToString(TRUNCATE_LEN) \o " chars shown].. "
       IN  /\ n = 0 => call.out = "[EMPTY OUTPUT]"
           /\ n \in 1..TRUNCATE_LEN
              => /\ Len(call.out) = Len(full) + n
                 /\ SubSeq(call.out, 1, Len(full)) = full
                 /\ \A k \in 1..n :
                       SubSeq(call.out, Len(full) + k, Len(full) + k) = SubSeq(t, k, k)
           /\ n >= TRUNCATE_LEN + 1
              => /\ Len(call.out) = Len(cut) + TRUNCATE_LEN
                 /\ SubSeq(call.out, 1, Len(cut)) = cut
                 /\ \A k \in 1..TRUNCATE_LEN :
                       SubSeq(call.out, Len(cut) + k, Len(cut) + k)
                          = SubSeq(t, n - TRUNCATE_LEN + k, n - TRUNCATE_LEN + k)

\* a text of exactly TRUNCATE_LEN + 1 characters was truncated
C15_Witness ==
    /\ call.fn = "truncateText"
    /\ Len(call.arg) = TRUNCATE_LEN + 1
    /\ call.arg = Stdout(TRUNCATE_LEN + 1)
    /\ Len(call.out) = Len(call.arg) + Len("[TRUNCATED: Last  chars shown].. ")
                          + Len(ToString(TRUNCATE_LEN)) - 1

\* C16: for each role on its own, resolveRuntimeModels selects the
\* requested id when the catalog lists it; else the value of the role's
\* fallback env var when that is set (not blank) and listed; else the first
\* id of the role's built-in fallback list that is listed; else the first
\* id of the catalog.  The selected id is always listed.  There is one
\* warning per role whose selected id differs from the requested one, in
\* the order primary, sub, each naming its role, and no warning for a role
\* whose requested id is listed.
C16_RuntimeModelSelection ==
    call.fn = "resolveRuntimeModels"
    => LET A == call.arg.available
           S == {A[k] : k \in 1..Len(A)}
           Expected(q, e, B) ==
               IF q \in S THEN q
               ELSE IF e # Unset /\ Trim(e[1]) \in S THEN Trim(e[1])
               ELSE IF \E k \in 1..Len(B) : B[k] \in S
               THEN B[CHOOSE k \in 1..Len(B) :
                         B[k] \in S /\ \A j \in 1..(k - 1) : B[j] \notin S]
               ELSE A[1]
           qp == call.arg.requested.primaryAgent
           qs == call.arg.requested.subAgent
           W == call.out.warnings
           Names(w, role) ==
               SubSeq(w, 1, Len("Requested " \o role)) = "Requested " \o role
       IN  /\ call.out.primaryAgent =
                 Expected(qp, call.arg.env["RLM_FALLBACK_PRIMARY"], PRIMARY_FALLBACKS)
           /\ call.out.subAgent =
                 Expected(qs, call.arg.env["RLM_FALLBACK_SUB"], SUB_FALLBACKS)
           /\ call.out.primaryAgent \in S
           /\ call.out.subAgent \in S
           /\ Len(W) = (IF call.out.primaryAgent # qp THEN 1 ELSE 0)
                          + (IF call.out.subAgent # qs THEN 1 ELSE 0)
           /\ qp \in S => \A k \in 1..Len(W) : ~Names(W[k], "primary")
           /\ qs \in S => \A k \in 1..Len(W) : ~Names(W[k], "sub")
           /\ (qp \notin S /\ qs \notin S)
              => (Names(W[1], "primary") /\ Names(W[2], "sub"))

\* the primary role fell back to its padded env value, the sub role, with
\* no env value and no built-in fallback listed, to the head of the catalog
C16_Witness ==
    /\ call.fn = "resolveRuntimeModels"
    /\ call.arg.available = <<"local-model", "gpt-5.1">>
    /\ call.arg.requested.primaryAgent = "missing-primary"
    /\ call.arg.requested.subAgent = "missing-sub"
    /\ call.arg.env["RLM_FALLBACK_PRIMARY"] = Val(" gpt-5.1 ")
    /\ call.arg.env["RLM_FALLBACK_SUB"] = Val(" ")
    /\ call.out.primaryAgent = "gpt-5.1"
    /\ call.out.subAgent = "local-model"
    /\ Len(call.out.warnings) = 2

\* C17: each of primaryAgent and subAgent is, from its own env var and
\* config key alone: the env value (trimmed) when the env var is set; else
\* the config value when the config key is set; else the built-in default.
\* An env var that is absent, empty or blank counts as unset, and so does a
\* config key that is absent or empty.
C17_ModelNamePrecedence ==
    call.fn = "resolveModelNames"
    => LET EnvSet(e) == e # Unset /\ Trim(e[1]) # ""
           CfgSet(c) == c # Unset /\ c[1] # ""
           Expected(e, c, dflt) ==
               IF EnvSet(e) THEN Trim(e[1]) ELSE IF CfgSet(c) THEN c[1] ELSE dflt
           ep == call.arg.env["RLM_PRIMARY_AGENT"]
           es == call.arg.env["RLM_SUB_AGENT"]
           cp == call.arg.config.primary_agent
           cs == call.arg.config.sub_agent
       IN  /\ call.out.primaryAgent = Expected(ep, cp, "gpt-5")
           /\ call.out.subAgent = Expected(es, cs, "gpt-5-codex-mini")
           /\ (CfgSet(cp) /\ call.out.primaryAgent = cp[1]) => ~EnvSet(ep)
           /\ (CfgSet(cs) /\ call.out.subAgent = cs[1]) => ~EnvSet(es)
           /\ call.out.primaryAgent = "gpt-5" => (~EnvSet(ep) /\ ~CfgSet(cp))
           /\ call.out.subAgent = "gpt-5-codex-mini" => (~EnvSet(es) /\ ~CfgSet(cs))

\* the primary name came from the env var although the config names one,
\* the sub name from the config key
C17_Witness ==
    /\ call.fn = "resolveModelNames"
    /\ call.arg.env["RLM_PRIMARY_AGENT"] = Val(" env-model ")
    /\ call.arg.config.primary_agent = Val("cfg-primary")
    /\ call.out.primaryAgent = "env-model"
    /\ call.arg.env["RLM_SUB_AGENT"] = Unset
    /\ call.out.subAgent = "cfg-sub"

\* C18: resolveProxyClientConfig throws when RLM_MODEL_API_KEY or
\* RLM_MODEL_BASE_URL is missing (absent, empty or blank), naming the first
\* missing one, or when the base URL without its trailing slashes does not
\* end in "/v1"; in every other case it returns the trimmed api key and the
\* base URL without its trailing slashes, which ends in "/v1" and not in "/".
C18_ProxyClientConfig ==
    call.fn = "resolveProxyClientConfig"
    => LET key == call.arg.RLM_MODEL_API_KEY
           url == call.arg.RLM_MODEL_BASE_URL
           Missing(v) == v = Unset \/ Trim(v[1]) = ""
           \* u is b followed by slashes only, and b does not end in a slash
           BaseOf(u, b) ==
               /\ Len(b) <= Len(u)
               /\ SubSeq(u, 1, Len(b)) = b
               /\ \A k \in (Len(b) + 1)..Len(u) : SubSeq(u, k, k) = "/"
               /\ Len(b) > 0 => SubSeq(b, Len(b), Len(b)) # "/"
           V1(b) == Len(b) >= 3 /\ SubSeq(b, Len(b) - 2, Len(b)) = "/v1"
           Prefixes(u) == {SubSeq(u, 1, n) : n \in 0..Len(u)}
           fails == \/ Missing(key)
                    \/ Missing(url)
                    \/ \A b \in Prefixes(Trim(url[1])) : BaseOf(Trim(url[1]), b) => ~V1(b)
       IN  /\ (call.out.threw # "") <=> fails
           /\ Missing(key) => EndsWith(call.out.threw, "RLM_MODEL_API_KEY")
           /\ call.out.threw = ""
              => /\ call.out.apiKey = Trim(key[1])
                 /\ BaseOf(Trim(url[1]), call.out.baseURL)
                 /\ V1(call.out.baseURL)

\* the base URL of the test suite, and one with blanks and two slashes
C18_Witness ==
    /\ call.fn = "resolveProxyClientConfig"
    /\ call.arg.RLM_MODEL_API_KEY = Val(" test-key ")
    /\ call.arg.RLM_MODEL_BASE_URL \in {Val("http://127.0.0.1:8317/v1/"), Val(" http://h/v1// ")}
    /\ call.out.threw = ""
    /\ call.out.apiKey = "test-key"
    /\ call.out.baseURL \in {"http://127.0.0.1:8317/v1", "http://h/v1"}

\* C20: a max_prompt_tokens / max_completion_tokens that is a finite
\* number > 0 is the cap of its kind; one that is zero, negative, not
\* finite, not a number or absent leaves the cap undefined, and with an
\* undefined cap the budget check of that kind does not fire on any
\* accumulated total; with a cap it fires exactly on totals above the cap.
C20_TokenLimits ==
    call.fn = "resolveTokenLimits"
    => LET Positive(v) == v[1] = "number" /\ v[2] > 0
           p == call.arg.config.max_prompt_tokens
           c == call.arg.config.max_completion_tokens
       IN  /\ IF Positive(p)
              THEN /\ call.out.maxPromptTokens = p[2]
                   /\ call.promptBudgetError <=> call.arg.totalUsage.prompt_tokens > p[2]
              ELSE /\ call.out.maxPromptTokens = Undefined
                   /\ ~call.promptBudgetError
           /\ IF Positive(c)
              THEN /\ call.out.maxCompletionTokens = c[2]
                   /\ call.completionBudgetError
                         <=> call.arg.totalUsage.completion_tokens > c[2]
              ELSE /\ call.out.maxCompletionTokens = Undefined
                   /\ ~call.completionBudgetError

\* a zero prompt cap and a negative completion cap, with usage accumulated:
\* both caps undefined and no budget error
C20_Witness ==
    /\ call.fn = "resolveTokenLimits"
    /\ call.arg.config.max_prompt_tokens = Num(0)
    /\ call.arg.config.max_completion_tokens = Num(-1)
    /\ call.arg.totalUsage.prompt_tokens > TokenCap
    /\ call.arg.totalUsage.completion_tokens > TokenCap
    /\ call.out.maxPromptTokens = Undefined
    /\ ~call.promptBudgetError
    /\ ~call.completionBudgetError

\* the chat calls of agents 1..n that have resolved with a reply: of the
\* calls an agent issued, the one in flight and the one that was rejected
\* have no reply
RECURSIVE RepliesUpTo(_)
RepliesUpTo(n) ==
    IF n = 0 THEN 0
    ELSE RepliesUpTo(n - 1) + agents[n].calls
            - (IF agents[n].pc = "chat" THEN 1 ELSE 0)
            - (IF agents[n].error = "chat" THEN 1 ELSE 0)

\* C11: from resetUsage() on (an invocation rejected by validatePrefix does
\* not get there), at every point of the invocation, each budget check and
\* the end included, the global usage is the field-wise sum of
\* the usage of all replies received so far by any agent, each counted
\* once: its token total is MaxCallTokens per reply received, and a reply
\* is counted in the step that receives it, so no chat call starts with an
\* earlier reply uncounted.
C11_UsageIsSumOfReplies ==
    (cmd.pc # "init" /\ cmd.thrown # "usage")
    => /\ totalUsage = chatUsage
       /\ totalUsage.prompt_tokens + totalUsage.completion_tokens
             = MaxCallTokens * RepliesUpTo(Len(agents))

\* the invocation has ended after replies to both the root and a child,
\* one of them without a repl block (a turn that took all MAX_CALLS turns)
C11_Witness ==
    /\ cmd.pc = "done"
    /\ Len(agents) = 2
    /\ agents[2].calls >= 1
    /\ agents[1].calls = MAX_CALLS
    /\ RepliesUpTo(2) >= 3
    /\ totalUsage.prompt_tokens >= 1
    /\ totalUsage.completion_tokens >= 1

\* the positions of the events of run r in the log
EventsOf(r) == {k \in 1..Len(events) : events[k].run_id = r}
Least(S) == CHOOSE k \in S : \A j \in S : k <= j
Greatest(S) == CHOOSE k \in S : \A j \in S : k >= j

\* C12: for every child C of a parent P, at every point of the run: no
\* event of P lies between C's run_start and C's latest event; the event of
\* P just before C's run_start is a step event (step k-1 of P, the turn
\* before the launching one), and the first event of P after C's events, if
\* there is one, is P's step event k.
C12_ChildEventsNested ==
    \A c \in Ids :
        agents[c].parent_run_id # NoRun
        => LET P == EventsOf(agents[c].parent_run_id)
               first == Least(EventsOf(c))
               last == Greatest(EventsOf(c))
               before == {k \in P : k < first}
               after == {k \in P : k > last}
           IN  /\ \A k \in P : k < first \/ k > last
               /\ before # {}
               /\ events[Greatest(before)].event_type = "step"
               /\ after # {}
                  => /\ events[Least(after)].event_type = "step"
                     /\ events[Least(after)].step = events[Greatest(before)].step + 1

\* ------------------------------------------------------------------ C28
\* what the turn loop does with a reply it got no code from: nothing runs in
\* the sandbox, one step event with empty code and no output is logged, the
\* assistant reply and the synthetic user message are appended, and the
\* loop goes on with the next turn
TurnSkipped(a) ==
    /\ agents'[a].pc = "gen"
    /\ agents'[a].i = agents[a].i + 1
    /\ events' = Append(events, StepEvent(a, StepNumber(agents[a].i), "", FALSE))
    /\ agents'[a].lastStep = StepRecord(StepNumber(agents[a].i), "", FALSE, NotLogged)
    /\ agents'[a].messages = agents[a].messages \o <<"assistant", "user">>
    /\ agents'[a].lastMessage = Message("user", ExtractError)
    /\ agents'[a].stdoutBuffer = agents[a].stdoutBuffer
    /\ agents'[a].finalResult = agents[a].finalResult
    /\ Len(agents') = Len(agents)

\* C28 (as stated): a reply with no non-empty fenced repl block, the budget
\* permitting, gives success = false and empty code: the turn executes
\* nothing, logs one step with empty code and no output, appends the
\* synthetic extractor-error user message and continues with the next turn.
C28_NoNonEmptyBlockSkipsTurn ==
    [][\A a \in Ids :
         (/\ agents[a].pc = "chat"
          /\ agents'[a].reply \in {"no_block", "empty_block", "empty_blocks"})
         => TurnSkipped(a)]_vars

\* C28 (amended): a reply with no fenced repl block, or with a single one
\* that is empty after trimming, gives empty code and the turn is skipped as
\* above; a reply with several fenced blocks, all empty, gives the code "\n"
\* (the trimmed blocks joined by line breaks), success = true, and the turn
\* runs it: no step is logged yet and the reply is the last message.
C28_EmptyCodeSkipsTurn ==
    [][\A a \in Ids :
         /\ (/\ agents[a].pc = "chat"
             /\ agents'[a].reply \in {"no_block", "empty_block"})
            => TurnSkipped(a)
         /\ (/\ agents[a].pc = "chat"
             /\ agents'[a].reply = "empty_blocks")
            => /\ agents'[a].pc = "exec"
               /\ events' = events
               /\ agents'[a].lastMessage = Message("assistant", "reply")
               /\ agents'[a].stdoutBuffer = <<>>]_vars

C28_Witness ==
    \E a \in Ids :
        /\ agents[a].pc = "gen"
        /\ agents[a].reply = "empty_block"
        /\ agents[a].lastStep.code = ""
        /\ agents[a].lastStep.output = NotLogged
        /\ agents[a].lastMessage = Message("user", ExtractError)
        /\ agents[a].i = 1

\* ------------------------------------------------------------------ C29
\* agent a got a reply in this step (generate_code resolved)
GotReply(a) ==
    /\ agents[a].pc = "chat"
    /\ agents'[a].pc # "chat"
    /\ agents'[a].error # "chat"

\* C29: the budget check is post-increment. The reply that takes the global
\* prompt (or completion) total above the cap is counted in the total, and
\* the agent then fails with the budget error: it does not execute the
\* reply's code, logs no step for the turn and makes no further chat call.
\* A total equal to the cap does not trigger the error.
C29_BudgetPostIncrement ==
    [][\A a \in Ids :
         /\ GotReply(a)
            => LET over(f, cap) == cap # Undefined /\ totalUsage'[f] > cap IN
               /\ totalUsage'.prompt_tokens + totalUsage'.completion_tokens
                     = totalUsage.prompt_tokens + totalUsage.completion_tokens
                       + MaxCallTokens
               /\ (over("prompt_tokens", limits.maxPromptTokens)
                   \/ over("completion_tokens", limits.maxCompletionTokens))
                  => /\ agents'[a].pc = "failed"
                     /\ agents'[a].error \in {"budget_prompt", "budget_completion"}
                     /\ events' = events
                     /\ Len(agents') = Len(agents)
               /\ agents'[a].error = "budget_prompt"
                  <=> over("prompt_tokens", limits.maxPromptTokens)
               /\ agents'[a].error = "budget_completion"
                  <=> (/\ ~over("prompt_tokens", limits.maxPromptTokens)
                       /\ over("completion_tokens", limits.maxCompletionTokens))
         /\ agents[a].pc = "failed"
            => /\ agents'[a] = agents[a]
               /\ \A k \in 1..Len(events') :
                     events'[k].run_id = a => k <= Len(events)]_vars

C29_Witness ==
    /\ \E a \in Ids :
          /\ agents[a].error = "budget_prompt"
          /\ totalUsage.prompt_tokens > limits.maxPromptTokens
    /\ \E b \in Ids :
          /\ agents[b].calls >= 1
          /\ agents[b].pc = "gen"
          /\ agents[b].i = 1

\* ------------------------------------------------------------------ C30
\* the executed code of agent a's turn ended with an exception in this step
RaisedInTurn(a) ==
    /\ agents[a].pc = "exec"
    /\ agents'[a].pc = "gen"
    /\ \E n \in 1..Len(agents'[a].stdoutBuffer) :
          /\ agents'[a].stdoutBuffer[n].kind = "PyError"
          /\ agents'[a].stdoutBuffer[n].turn = agents[a].i

\* C30: an exception raised by the code executed in an agent's sandbox
\* (a failed llm_query included) never leaves the agent's turn loop: an
\* executing agent goes on executing, returns its final result or ends the
\* turn; the turn that ended with an exception has the Error line at the
\* end of its captured stdout, its step is logged with hasError true and its
\* output, the output is fed back as the next user message, and the loop
\* continues with the next turn.
C30_PythonErrorStaysInLoop ==
    [][\A a \in Ids :
         /\ agents[a].pc = "exec" => agents'[a].pc \in {"exec", "await", "gen", "returned"}
         /\ agents[a].pc = "await" => agents'[a].pc \in {"await", "exec"}
         /\ RaisedInTurn(a)
            => /\ agents'[a].stdoutBuffer =
                     Append(agents[a].stdoutBuffer,
                            [kind |-> "PyError", run_id |-> a, turn |-> agents[a].i])
               /\ agents'[a].lastStep =
                     StepRecord(StepNumber(agents[a].i), "code", TRUE, "true")
               /\ events' = Append(events,
                                   StepEvent(a, StepNumber(agents[a].i), "code", TRUE))
               /\ agents'[a].messages = Append(agents[a].messages, "user")
               /\ agents'[a].lastMessage = Message("user", "Output")
               /\ agents'[a].i = agents[a].i + 1]_vars

C30_Witness ==
    \E a \in Ids :
        /\ agents[a].pc = "gen"
        /\ agents[a].lastStep.hasError = "true"
        /\ agents[a].lastMessage = Message("user", "Output")
        /\ LastKind(agents[a].stdoutBuffer) = "PyError"
        /\ agents[a].childErr # "none"

\* ------------------------------------------------- messages and secrets
\* the value of RLM_MODEL_API_KEY, which is also the bearer token of every
\* request to the proxy
ApiKey == "sk-1"
\* [A-Za-z0-9._-] over the characters the words of the model use
TokenChars ==
    {"a", "b", "c", "d", "e", "i", "k", "l", "n", "o", "r", "s", "t", "y",
     "B", "D", "F", "I", "M", "N", "P", "0", "1", "4", "5", ".", "_", "-"}
\* the length of the longest prefix of a word that [A-Za-z0-9._-]+ matches
RECURSIVE TokenPrefixLen(_)
TokenPrefixLen(word) ==
    IF Len(word) = 0 \/ SubSeq(word, 1, 1) \notin TokenChars THEN 0
    ELSE 1 + TokenPrefixLen(SubSeq(word, 2, Len(word)))
\* .replace(/Bearer\s+[A-Za-z0-9._-]+/gi, "Bearer [REDACTED]") on a message
\* given as its words: the word after "Bearer" loses the prefix matched
RECURSIVE redactBearer(_)
redactBearer(message) ==
    IF Len(message) < 2 THEN message
    ELSE IF message[1] \in {"Bearer", "bearer", "BEARER"}
            /\ TokenPrefixLen(message[2]) > 0
         THEN <<"Bearer",
                "[REDACTED]" \o SubSeq(message[2], TokenPrefixLen(message[2]) + 1,
                                       Len(message[2]))>>
                  \o redactBearer(Slice(message, 2))
         ELSE <<message[1]>> \o redactBearer(Tail(message))
\* .replace(/(RLM_MODEL_API_KEY\s*=\s*)([^\s]+)/g, "$1[REDACTED]"): the
\* word after "RLM_MODEL_API_KEY=" is replaced whole
RECURSIVE redactEnvAssignment(_)
redactEnvAssignment(message) ==
    IF Len(message) < 2 THEN message
    ELSE IF message[1] = "RLM_MODEL_API_KEY="
         THEN <<message[1], "[REDACTED]">> \o redactEnvAssignment(Slice(message, 2))
         ELSE <<message[1]>> \o redactEnvAssignment(Tail(message))
\* redactSecrets without the bearer pass
redactSecretsEnvOnly(message) == redactEnvAssignment(message)
\* redactSecrets(message)
redactSecrets(message) == redactEnvAssignment(redactBearer(message))

\* the message holds the API key
HasSecret(message) == \E k \in 1..Len(message) : Includes(message[k], ApiKey)

\* how `await subagent(opts.context)` can reject, with the class of failure
\* of the exit code taxonomy and the message of the error: the preflight
\* errors of provider_config.ts (a response body can echo the request's
\* Authorization header), a failed chat request (the client's error quotes
\* the key the proxy rejected), the budget and MAX_CALLS errors of the
\* turn loop, and a thrown value whose message is empty
RootFailures ==
    {[class |-> "config", message |-> <<"Missing", "RLM_MODEL_API_KEY">>],
     [class |-> "proxy", message |-> <<"Failed", "models", "Bearer", ApiKey>>],
     [class |-> "proxy", message |-> <<"401", "Incorrect", "key:", ApiKey>>],
     [class |-> "model", message |-> <<"No", "models">>],
     [class |-> "runtime", message |-> <<"Prompt", "budget">>],
     [class |-> "runtime", message |-> <<"Did", "not", "finish">>],
     [class |-> "runtime", message |-> <<>>]}
\* how runSmokeCommand can reject: `${status} ${statusText}: ${text}` with
\* the response body, or an empty completion
SmokeFailures ==
    {<<"401", "Bearer", ApiKey>>, <<"401", "RLM_MODEL_API_KEY=", ApiKey>>,
     <<"401", "key:", ApiKey>>, <<"empty", "content">>}

\* --------------------------------------------------- the rlm process
\* a line of stdout: what it is, and the envelope for the JSON line of
\* printJsonEnvelope
Envelope(ok, results, log_file, error) ==
    [ok |-> ok, results |-> results, log_file |-> log_file, error |-> error,
     warnings |-> <<>>]
NoEnvelope == Envelope(FALSE, "none", Unset, Unset)
StdoutLine(kind) == [kind |-> kind, envelope |-> NoEnvelope]
EnvelopeLine(envelope) == [kind |-> "envelope", envelope |-> envelope]

\* outputPayload: results, log_file, and error (Unset: no `error` key)
Payload(results, log_file, error) ==
    [results |-> results, log_file |-> log_file, error |-> error]
NoPayload == Payload("none", Unset, Unset)
\* what a path holds: nothing, the content it had before the run, a
\* payload in full, or the beginning of one
FileOf(state, payload) == [state |-> state, payload |-> payload]
NoFile == FileOf("absent", NoPayload)
OldFile == FileOf("old", NoPayload)

\* a string | null is falsy when null or empty
Truthy(value) == value # Unset /\ value[1] # <<>>

\* the process at the start of main
StartProc(argv) ==
    [pc |-> "main", argv |-> argv, tty |-> "unread", started |-> "none",
     opts |-> NoOpts, failure |-> "none", out |-> "null",
     fatalError |-> Unset, logFile |-> Unset, payload |-> NoPayload,
     stdout |-> <<>>, stderr |-> <<>>,
     file |-> OldFile, tmp |-> NoFile, logRead |-> FALSE,
     err |-> NoError, exit |-> -1]

\* console.log
Say(p, line) == [p EXCEPT !.stdout = Append(@, line)]
\* Deno.exit(code) after runCli returned code
DenoExit(p, code) == [p EXCEPT !.pc = "exited", !.exit = code]
\* main's catch: console.error(redactSecrets(message)) and
\* Deno.exit(exitCodeForError(err))
Fatal(p, err) ==
    [p EXCEPT !.pc = "exited", !.err = err,
              !.stderr = Append(@, redactSecrets(err.message)),
              !.exit = exitCodeForError(err)]

\* completionCommand returning EXIT_CODES.OK
completionCommandReturnsOk(p, args) ==
    IF completionArgsError(args) # NoError
    THEN Fatal(p, completionArgsError(args))
    ELSE DenoExit([p EXCEPT !.stderr = Append(@, <<"completion", "not", "implemented">>)],
                  EXIT_OK)
\* completionCommand(args), then main
completionCommand(p, args) ==
    IF completionArgsError(args) # NoError
    THEN Fatal(p, completionArgsError(args))
    ELSE DenoExit([p EXCEPT !.stderr = Append(@, <<"completion", "not", "implemented">>)],
                  EXIT_GENERIC)

\* runCommand(args, inheritedJson) up to its first await (reading stdin)
runCommand(p, args, inheritedJson) ==
    LET parsed == parseRunArgs(args, inheritedJson) IN
    IF parsed.error # NoError THEN Fatal(p, parsed.error)
    ELSE [p EXCEPT !.pc = "stdin", !.opts = parsed]

\* smokeCommand(args, inheritedJson) up to the call of runSmokeCommand
smokeCommand(p, args, inheritedJson) ==
    IF smokeArgsError(args) # NoError THEN Fatal(p, smokeArgsError(args))
    ELSE [p EXCEPT !.pc = "smoke",
                   !.opts = RunOpts(Unset, Unset,
                                    inheritedJson \/ \E k \in 1..Len(args) : args[k] = "--json")]

\* logsCommand(args) and runLogsViewCommand up to the call of parseLogFile
logsCommand(p, args) ==
    IF logsArgsError(args) # NoError THEN Fatal(p, logsArgsError(args))
    ELSE [p EXCEPT !.pc = "logs"]

\* runCli(argv) up to its first await, or to the end of main when it
\* returns or throws before one; tty is what stdinIsTty() answers
runCli(p, tty) ==
    LET parsed == parseGlobalArgs(p.argv) IN
    IF parsed.error # NoError THEN Fatal(p, parsed.error)
    ELSE IF parsed.global.version \/ parsed.command = Val("version")
         THEN DenoExit(Say(p, StdoutLine("version")), EXIT_OK)
    ELSE IF parsed.global.help \/ parsed.command = Val("help")
         THEN DenoExit(Say(p, StdoutLine("help")), EXIT_OK)
    ELSE IF parsed.command = Unset \/ parsed.command = Val("")
         THEN IF tty
              THEN DenoExit(Say([p EXCEPT !.tty = "tty"], StdoutLine("help")), EXIT_USAGE)
              ELSE runCommand([p EXCEPT !.tty = "pipe", !.started = "run"],
                              <<>>, parsed.global.json)
    ELSE IF parsed.command = Val("run")
         THEN runCommand([p EXCEPT !.started = "run"], parsed.args, parsed.global.json)
    ELSE IF parsed.command = Val("smoke")
         THEN smokeCommand([p EXCEPT !.started = "smoke"], parsed.args, parsed.global.json)
    ELSE IF parsed.command = Val("logs")
         THEN logsCommand([p EXCEPT !.started = "logs"], parsed.args)
    ELSE IF parsed.command = Val("completion")
         THEN completionCommand([p EXCEPT !.started = "completion"], parsed.args)
    ELSE Fatal(p, UsageError("command"))

\* main: const code = await runCli(Deno.args)
RunCli ==
    /\ proc.pc = "main"
    /\ \E tty \in BOOLEAN : proc' = runCli(proc, tty)
    /\ UNCHANGED <<limits, agents, events, totalUsage, chatUsage, cmd, call>>

\* runSubagentCommand(opts) once stdin is read: validatePrefix, then the
\* call of subagent(opts.context)
RunSubagentStart ==
    /\ proc.pc = "stdin"
    /\ proc' = IF proc.opts.prefix # Unset /\ ~validatePrefix(proc.opts.prefix[1])
               THEN Fatal(proc, UsageError("prefix"))
               ELSE [proc EXCEPT !.pc = "subagent"]
    /\ UNCHANGED <<limits, agents, events, totalUsage, chatUsage, cmd, call>>

\* the human output of the running agents (setSubagentHumanOutputEnabled(
\* !jsonMode)): console.log of the preflight and of the turns
HumanOutput ==
    /\ proc.pc = "subagent"
    /\ ~proc.opts.jsonMode
    /\ proc.stdout = <<>>
    /\ proc' = Say(proc, StdoutLine("progress"))
    /\ UNCHANGED <<limits, agents, events, totalUsage, chatUsage, cmd, call>>

\* out = await subagent(opts.context) resolved; then showGlobalUsage and
\* the JSON_RESULT line when not in JSON mode
RootReturns ==
    /\ proc.pc = "subagent"
    /\ proc' = LET p == [proc EXCEPT !.pc = "flush", !.out = "value"] IN
               IF proc.opts.jsonMode THEN p
               ELSE Say(Say(p, StdoutLine("usage")), StdoutLine("JSON_RESULT"))
    /\ UNCHANGED <<limits, agents, events, totalUsage, chatUsage, cmd, call>>

\* catch (err): fatalError = err.message, and console.error of
\* `Fatal error: ${fatalError}` when not in JSON mode
RootThrows ==
    /\ proc.pc = "subagent"
    /\ \E f \in RootFailures :
          proc' = [proc EXCEPT
                      !.pc = "flush", !.failure = f.class,
                      !.fatalError = Val(f.message),
                      !.stderr = IF proc.opts.jsonMode THEN @
                                 ELSE Append(@, <<"Fatal", "error:">> \o f.message)]
    /\ UNCHANGED <<limits, agents, events, totalUsage, chatUsage, cmd, call>>

\* the envelope or the log lines, and the returned code, then main
Report(p) ==
    LET q == IF p.opts.jsonMode
             THEN Say(p, EnvelopeLine(Envelope(p.fatalError = Unset, p.out,
                                               p.logFile, p.fatalError)))
             ELSE IF p.logFile # Unset
                  THEN Say(Say(p, StdoutLine("log_saved")), StdoutLine("view_with"))
                  ELSE p
    IN DenoExit(q, IF Truthy(p.fatalError) THEN EXIT_RUNTIME ELSE EXIT_OK)

\* finally { await Logger.flush() }, getLogFile() and outputPayload; without
\* --output the report follows at once
FlushAndPayload ==
    /\ proc.pc = "flush"
    /\ \E logFile \in {Unset, Val("log.jsonl")} :
          LET p == [proc EXCEPT
                       !.logFile = logFile,
                       !.payload = Payload(proc.out, logFile,
                                           IF Truthy(proc.fatalError)
                                           THEN proc.fatalError ELSE Unset)]
          IN proc' = IF proc.opts.outputFile = Unset THEN Report(p)
                     ELSE [p EXCEPT !.pc = "write"]
    /\ UNCHANGED <<limits, agents, events, totalUsage, chatUsage, cmd, call>>

\* writeOutputAtomically: await Deno.writeTextFile(tmp, ...), which can
\* fail before or after it created the temporary file
WriteTmp ==
    /\ proc.pc = "write"
    /\ \E written \in {"payload", "partial", "absent"} :
          proc' = [proc EXCEPT
                      !.tmp = IF written = "absent" THEN NoFile
                              ELSE FileOf(written, proc.payload),
                      !.pc = IF written = "payload" THEN "rename" ELSE "remove"]
    /\ UNCHANGED <<limits, agents, events, totalUsage, chatUsage, cmd, call>>

\* await Deno.rename(tmp, outputFile); on success the report follows
RenameTmp ==
    /\ proc.pc = "rename"
    /\ \E renamed \in BOOLEAN :
          proc' = IF renamed
                  THEN Report([proc EXCEPT !.file = proc.tmp, !.tmp = NoFile])
                  ELSE [proc EXCEPT !.pc = "remove"]
    /\ UNCHANGED <<limits, agents, events, totalUsage, chatUsage, cmd, call>>

\* catch (err): try { await Deno.remove(tmp) } catch { ignore }, then
\* throw new CliError("output", ...) up to main
RemoveTmp ==
    /\ proc.pc = "remove"
    /\ \E removed \in BOOLEAN :
          proc' = Fatal([proc EXCEPT !.tmp = IF removed THEN NoFile ELSE @],
                        CliError("output", <<"Failed", "writing", "output">>))
    /\ UNCHANGED <<limits, agents, events, totalUsage, chatUsage, cmd, call>>

\* runSmokeCommand resolved: the smoke report on stdout and code 0
SmokeReturns ==
    /\ proc.pc = "smoke"
    /\ proc' = DenoExit(Say(proc, StdoutLine("smoke")), EXIT_OK)
    /\ UNCHANGED <<limits, agents, events, totalUsage, chatUsage, cmd, call>>

\* runSmokeCommand rejected with an Error
SmokeThrows ==
    /\ proc.pc = "smoke"
    /\ \E message \in SmokeFailures : proc' = Fatal(proc, PlainError(message))
    /\ UNCHANGED <<limits, agents, events, totalUsage, chatUsage, cmd, call>>

\* parseLogFile(filePath) and the view: the file is read
LogsViewed ==
    /\ proc.pc = "logs"
    /\ proc' = DenoExit(Say([proc EXCEPT !.logRead = TRUE], StdoutLine("view")), EXIT_OK)
    /\ UNCHANGED <<limits, agents, events, totalUsage, chatUsage, cmd, call>>

\* parseLogFile threw: NotFound becomes a usage CliError, anything else a
\* runtime CliError
LogsUnreadable ==
    /\ proc.pc = "logs"
    /\ \E notFound \in BOOLEAN :
          proc' = Fatal([proc EXCEPT !.logRead = TRUE],
                        IF notFound THEN UsageError("notfound")
                        ELSE CliError("runtime", <<"Malformed", "JSONL">>))
    /\ UNCHANGED <<limits, agents, events, totalUsage, chatUsage, cmd, call>>

\* ------------------------------------------------------ command lines
\* the global flags put before the command
MaxGlobalFlags == 1
\* the arguments put after `logs`
MaxLogArgs == 4
SeqsUpTo(S, n) == UNION {[1..k -> S] : k \in 0..n}
GlobalParts == SeqsUpTo({"--help", "--version", "--json", "--bogus", "--"}, MaxGlobalFlags)
RunArgLists ==
    {j \o pre \o o \o x :
        j \in {<<>>, <<"--json">>},
        pre \in {<<>>, <<"--prefix", "demo">>, <<"--prefix", "a/b">>,
                 <<"--prefix", "a..b">>, <<"--prefix">>},
        o \in {<<>>, <<"--output", "out.json">>, <<"--output">>},
        x \in {<<>>, <<"--bogus">>, <<"--help">>}}
LogArgLists == SeqsUpTo({"view", "f.jsonl", "--tree", "--linear", "--bad"}, MaxLogArgs)
CommandLines ==
    {<<>>, <<"help">>, <<"version">>, <<"bogus">>}
        \cup {<<"run">> \o a : a \in RunArgLists}
        \cup {<<"smoke">> \o a : a \in {<<>>, <<"--json">>, <<"--bogus">>, <<"--help">>}}
        \cup {<<"logs">> \o a : a \in LogArgLists}
        \cup {<<"completion">> \o a : a \in {<<>>, <<"bash">>, <<"fish">>, <<"tcsh">>}}
Argvs == {g \o c : g \in GlobalParts, c \in CommandLines}

CliInit ==
    /\ InitCore
    /\ limits.maxPromptTokens = Undefined
    /\ totalUsage = ZeroUsage
    /\ proc \in {StartProc(argv) : argv \in Argvs}

CliNext ==
    \/ RunCli
    \/ RunSubagentStart
    \/ HumanOutput
    \/ RootReturns
    \/ RootThrows
    \/ FlushAndPayload
    \/ WriteTmp
    \/ RenameTmp
    \/ RemoveTmp
    \/ SmokeReturns
    \/ SmokeThrows
    \/ LogsViewed
    \/ LogsUnreadable

CliSpec == CliInit /\ [][CliNext]_vars

\* ---------------------------------------------------------------- C26
\* the code exitCodeForError returns for a CliError of a kind
CodeOfKind(kind) == exitCodeForError(CliError(kind, <<"m">>))
\* C26: exitCodeForError maps a CliError of kind usage to 2, config to 3,
\* proxy to 4, model to 5, runtime to 6, output to 7, interrupted to 130
\* and generic to 1; two distinct kinds other than generic never share a
\* code; and a value that is not a CliError maps to 1
C26_ExitCodeForError ==
    call.fn = "exitCodeForError" =>
        /\ call.arg.cli =>
              call.out = CASE call.arg.kind = "usage" -> 2
                           [] call.arg.kind = "config" -> 3
                           [] call.arg.kind = "proxy" -> 4
                           [] call.arg.kind = "model" -> 5
                           [] call.arg.kind = "runtime" -> 6
                           [] call.arg.kind = "output" -> 7
                           [] call.arg.kind = "interrupted" -> 130
                           [] call.arg.kind = "generic" -> 1
        /\ call.arg.cli /\ call.arg.kind # "generic" =>
              \A k \in CliErrorKinds \ {"generic", call.arg.kind} :
                  CodeOfKind(k) # call.out
        /\ ~call.arg.cli => call.out = 1
\* an output CliError has been mapped
C26_Witness ==
    /\ call.fn = "exitCodeForError"
    /\ call.arg.cli
    /\ call.arg.kind = "output"
    /\ call.out = EXIT_OUTPUT_WRITE
\* a thrown value that is not a CliError has been mapped, although its
\* `kind` property reads "usage"
C26_WitnessNotCliError ==
    /\ call.fn = "exitCodeForError"
    /\ ~call.arg.cli
    /\ call.arg.kind = "usage"
    /\ call.out = EXIT_GENERIC

\* ---------------------------------------------------------------- C24
\* the process has ended with a CliError of kind usage
UsageFailure ==
    /\ proc.pc = "exited"
    /\ proc.err.cli
    /\ proc.err.kind = "usage"
    /\ proc.exit = 2
\* the names runCli knows as a command
CommandNames == {"run", "smoke", "logs", "completion", "help", "version"}
\* runCli has printed the help text or the version, returned 0 and
\* started no subcommand
ReturnedZeroWithout(kind) ==
    /\ proc.pc = "exited"
    /\ proc.exit = 0
    /\ proc.err = NoError
    /\ proc.started = "none"
    /\ proc.stdout = <<StdoutLine(kind)>>
\* runCli has dispatched: completion with a known shell returned 1, a
\* command that is not known raised a usage CliError, no command on a TTY
\* printed help and returned 2
DispatchedAsStated(parsed) ==
    /\ (parsed.command = Val("completion") /\ parsed.args # <<>>
           /\ parsed.args[1] \in {"bash", "zsh", "fish"})
          => proc.pc = "exited" /\ proc.exit = 1 /\ proc.err = NoError
    /\ (parsed.command # Unset /\ parsed.command[1] \notin CommandNames)
          => UsageFailure /\ proc.started = "none"
    /\ (parsed.command = Unset /\ proc.tty = "tty")
          => /\ proc.pc = "exited"
             /\ proc.exit = 2
             /\ proc.stdout = <<StdoutLine("help")>>
             /\ proc.started = "none"
\* C24 as stated: `help`, `--help`, `version` and `--version` return 0
\* without starting a subcommand; and whatever global flags come first,
\* `completion` with a known shell returns 1, a first non-flag argument
\* that is no command raises a usage CliError, and no command on a TTY
\* prints help and returns 2
C24_DispatchWhateverFlags ==
    LET parsed == parseGlobalArgs(proc.argv) IN
    (proc.pc \notin {"none", "main"} /\ parsed.error = NoError) =>
        /\ proc.argv \in {<<"help">>, <<"--help">>} => ReturnedZeroWithout("help")
        /\ proc.argv \in {<<"version">>, <<"--version">>} => ReturnedZeroWithout("version")
        /\ DispatchedAsStated(parsed)
\* C24: once the global flags are parsed, runCli prints the version and
\* returns 0 when --version or the command `version` is given, else prints
\* help and returns 0 when -h/--help or the command `help` is given, both
\* without starting a subcommand and whatever else the command line holds;
\* only when none of these is given, `completion` with a known shell
\* returns 1, a first non-flag argument that is no command raises a usage
\* CliError, and no command on a TTY prints help and returns 2
C24_DispatchAfterHelpAndVersion ==
    LET parsed == parseGlobalArgs(proc.argv)
        version == parsed.global.version \/ parsed.command = Val("version")
        help == parsed.global.help \/ parsed.command = Val("help")
    IN
    (proc.pc \notin {"none", "main"} /\ parsed.error = NoError) =>
        /\ version => ReturnedZeroWithout("version")
        /\ (~version /\ help) => ReturnedZeroWithout("help")
        /\ (~version /\ ~help) => DispatchedAsStated(parsed)
\* `rlm --help bogus` has printed help and returned 0
C24_Witness ==
    /\ proc.pc = "exited"
    /\ proc.argv = <<"--help", "bogus">>
    /\ proc.exit = 0
    /\ proc.stdout = <<StdoutLine("help")>>
\* `rlm completion bash` has returned 1, and `rlm` on a TTY 2
C24_WitnessCompletion ==
    /\ proc.pc = "exited"
    /\ proc.argv = <<"completion", "bash">>
    /\ proc.exit = 1
C24_WitnessBareOnTty ==
    /\ proc.pc = "exited"
    /\ proc.argv = <<>>
    /\ proc.tty = "tty"
    /\ proc.exit = 2

\* ---------------------------------------------------------------- C25
\* the arguments after `logs` are bad usage: no 'view' word, no file, more
\* than one argument after the file, or a mode that is none of the three
BadLogsUsage(args) ==
    \/ Len(args) = 0
    \/ args[1] # "view"
    \/ Len(args) = 1
    \/ Len(args) > 3
    \/ (Len(args) = 3 /\ args[3] \notin {"--tree", "--stats", "--linear"})
\* C25: when the logs command is given bad usage (no 'view' word, no file
\* argument, more than one argument after the file, a mode other than
\* --tree, --stats, --linear) the process ends with a CliError of kind
\* usage and exit code 2, and the log file is never read
C25_LogsUsageBeforeRead ==
    (proc.started = "logs" /\ BadLogsUsage(parseGlobalArgs(proc.argv).args)) =>
        /\ UsageFailure
        /\ ~proc.logRead
\* `rlm logs view f.jsonl --bad` has been rejected
C25_Witness ==
    /\ proc.argv = <<"logs", "view", "f.jsonl", "--bad">>
    /\ UsageFailure
    /\ ~proc.logRead
\* `rlm logs view f.jsonl --tree --linear` has been rejected
C25_WitnessExtraArgument ==
    /\ proc.argv = <<"logs", "view", "f.jsonl", "--tree", "--linear">>
    /\ UsageFailure
    /\ ~proc.logRead

\* ---------------------------------------------------------------- C21
\* an `rlm run` invocation whose root agent has settled has ended
RunEnded ==
    /\ proc.pc = "exited"
    /\ proc.started = "run"
    /\ (proc.out = "value" \/ proc.failure # "none")
\* writeOutputAtomically threw
OutputWriteFailed == proc.err.cli /\ proc.err.kind = "output"
\* C21: the exit code of `rlm run` names the class of the failure: 7 when
\* the --output write failed, else 3 for a missing or invalid proxy env var,
\* 4 for a failed /models or chat request, 5 for an empty model catalog, 6
\* for a budget or MAX_CALLS failure, and 0 on success
C21_ExitCodeNamesFailureClass ==
    RunEnded =>
        proc.exit = IF OutputWriteFailed THEN 7
                    ELSE CASE proc.failure = "config" -> 3
                           [] proc.failure = "proxy" -> 4
                           [] proc.failure = "model" -> 5
                           [] proc.failure = "runtime" -> 6
                           [] proc.failure = "none" -> 0

\* ---------------------------------------------------------------- C22
\* C22: in --json mode an `rlm run` invocation that has ended, successful
\* or failed, has written exactly one line to stdout, the envelope; on
\* success ok is true and error null, on failure ok is false, results is
\* null and error is set
C22_OneEnvelopeOnStdout ==
    (RunEnded /\ proc.opts.jsonMode) =>
        /\ Len(proc.stdout) = 1
        /\ proc.stdout[1].kind = "envelope"
        /\ LET e == proc.stdout[1].envelope IN
           IF proc.failure = "none" /\ ~OutputWriteFailed
           THEN e.ok /\ e.error = Unset
           ELSE ~e.ok /\ e.results = "null" /\ e.error # Unset

\* ---------------------------------------------------------------- C23
\* C23: with --output, no partially written payload is ever visible at the
\* output path; and once the invocation has ended no temporary file
\* remains, and the output file either holds the payload of this run in
\* full (its error field present exactly when the run failed, results null
\* in that case) or is unchanged with the command failed by an output-write
\* error
C23_OutputFileAtomic ==
    /\ proc.pc # "none" => proc.file.state # "partial"
    /\ (RunEnded /\ proc.opts.outputFile # Unset) =>
          /\ proc.tmp = NoFile
          /\ \/ /\ proc.file.state = "payload"
                /\ proc.file.payload.results = proc.out
                /\ proc.file.payload.log_file = proc.logFile
                /\ (proc.file.payload.error # Unset) <=> (proc.failure # "none")
                /\ proc.failure # "none" => proc.file.payload.results = "null"
                /\ ~OutputWriteFailed
             \/ /\ proc.file = OldFile
                /\ OutputWriteFailed
                /\ proc.exit = 7

\* ---------------------------------------------------------------- C27
\* the error messages the process has surfaced: the lines of stderr, the
\* error of the envelope on stdout, the error of the payload written
Surfaced ==
    {proc.stderr[k] : k \in 1..Len(proc.stderr)}
        \cup {proc.stdout[k].envelope.error[1] :
                 k \in {j \in 1..Len(proc.stdout) :
                           /\ proc.stdout[j].kind = "envelope"
                           /\ proc.stdout[j].envelope.error # Unset}}
        \cup {proc.file.payload.error[1] :
                 k \in {j \in {1} : /\ proc.file.state = "payload"
                                    /\ proc.file.payload.error # Unset}}
\* C27: no error message the process writes to stderr or surfaces in the
\* envelope or the payload holds the bearer token / RLM_MODEL_API_KEY value
C27_NoSecretSurfaced ==
    proc.pc # "none" => \A message \in Surfaced : ~HasSecret(message)
\* what does hold: main's catch never writes the key to stderr when the
\* message carries it as `Bearer <key>` or `RLM_MODEL_API_KEY= <key>`
MainRedactsKnownForms ==
    (proc.pc = "exited" /\ proc.started = "smoke" /\ proc.err # NoError
        /\ proc.err.message \in {<<"401", "Bearer", ApiKey>>,
                                 <<"401", "RLM_MODEL_API_KEY=", ApiKey>>})
        => ~HasSecret(proc.stderr[Len(proc.stderr)])

\* ---------------------------------------------------------------- C36
\* C36: for every non-empty available list, the primary and the sub model
\* id resolveRuntimeModels returns are both members of that list, whatever
\* ids were requested and whatever the two fallback env vars hold
C36_SelectedAreAvailable ==
    call.fn = "resolveRuntimeModels" =>
        LET listed == {call.arg.available[k] : k \in 1..Len(call.arg.available)} IN
        /\ Len(call.arg.available) >= 1
        /\ call.out.primaryAgent \in listed
        /\ call.out.subAgent \in listed
\* neither requested id is listed, both fallback env vars name an id that
\* is not listed either, and for the primary no built-in fallback is listed
C36_Witness ==
    /\ call.fn = "resolveRuntimeModels"
    /\ call.arg.available = <<"gemini-2.5-flash">>
    /\ call.arg.requested.primaryAgent = "missing-primary"
    /\ call.arg.requested.subAgent = "missing-sub"
    /\ call.arg.env["RLM_FALLBACK_PRIMARY"] = Val("local-model")
    /\ call.arg.env["RLM_FALLBACK_SUB"] = Val(" gpt-5.1 ")
    /\ call.out.primaryAgent = "gemini-2.5-flash"
    /\ call.out.subAgent = "gemini-2.5-flash"

\* ---------------------------------------------------------------- C32
\* the six fields of a Usage record
UsageFields ==
    {"prompt_tokens", "completion_tokens", "total_tokens", "cached_tokens",
     "reasoning_tokens", "cost"}
\* C32: every field of the usage record normalizeUsage returns, which is
\* what trackUsage adds to the global usage, is non-negative whatever the
\* provider reported; so no field of the global usage ever decreases
C32_UsageFieldsNonNegative ==
    call.fn = "normalizeUsage" =>
        \A f \in UsageFields :
            /\ call.out[f] >= 0
            /\ \A before \in 0..1 : before + call.out[f] >= before

\* C40: withFinalizer calls the finalizer exactly once whether run()
\* fulfils or rejects; when run() rejects, the caller receives run()'s
\* error, at most with the finalizer's failure appended to its message and
\* never replaced by the finalizer's error; when run() fulfils and the
\* finalizer rejects, the caller receives the finalizer's error.
C40_FinalizerNeverReplacesRunError ==
    call.fn = "withFinalizer" =>
        LET run == call.arg.run
            finalize == call.arg.finalize
            out == call.out
        IN  /\ out.finalizeCalls = 1
            /\ run.threw =>
                 /\ out.threw
                 /\ out.value.type = run.value.type
                 /\ \/ out.value = run.value
                    \/ /\ finalize.threw
                       /\ Len(out.value.message) > Len(run.value.message)
                       /\ SubSeq(out.value.message, 1, Len(run.value.message))
                            = run.value.message
                 /\ (finalize.threw /\ finalize.value # run.value)
                        => out.value # finalize.value
            /\ (~run.threw /\ finalize.threw) =>
                 out.threw /\ out.value = finalize.value
            /\ (~run.threw /\ ~finalize.threw) =>
                 ~out.threw /\ out.value = run.value

\* ---------------------------------------------------------------- C37
\* C37: the outcomes of a runSubagentCommand that returned agree: the
\* exit code is 0 exactly when the envelope of a --json run has ok = true,
\* exactly when no error is reported (no `Fatal error:` line, a null
\* envelope error) and the output payload has no `error` field; and the
\* exit code is 6 exactly when the root agent threw, whatever it threw
C37_OutcomesAgree ==
    (RunEnded /\ ~OutputWriteFailed) =>
        LET ok == proc.exit = EXIT_OK IN
        /\ proc.exit \in {EXIT_OK, EXIT_RUNTIME}
        /\ proc.opts.jsonMode =>
             /\ ok <=> proc.stdout[Len(proc.stdout)].envelope.ok
             /\ ok <=> proc.stdout[Len(proc.stdout)].envelope.error = Unset
        /\ ~proc.opts.jsonMode => (ok <=> proc.stderr = <<>>)
        /\ ok <=> proc.payload.error = Unset
        /\ (proc.exit = EXIT_RUNTIME) <=> (proc.failure # "none")

\* ---------------------------------------------------------------- C31
\* the root frame of the invocation: the one subagent() call without a
\* parent run
RootAgent == CHOOSE a \in Ids : agents[a].parent_run_id = NoRun
\* C31: the model preflight runs once per invocation, in the root frame
\* only; every chat call of the depth-0 agent is given the primary model
\* that preflight resolved, and every chat call of an agent at depth >= 1
\* the sub model of the same resolution
C31_SingleModelPair ==
    \A a \in Ids :
        /\ agents[a].preflights =
               IF a = RootAgent /\ agents[a].pc # "preflight" THEN 1 ELSE 0
        /\ agents[a].depth = 0 <=> a = RootAgent
        /\ agents[a].calls >= 1 =>
               /\ agents[RootAgent].models \in ModelPairs
               /\ agents[a].chatModel =
                      IF agents[a].depth = 0
                      THEN agents[RootAgent].models.primaryAgent
                      ELSE agents[RootAgent].models.subAgent
\* a child of the root is in a chat call after the root made its own
C31_Witness ==
    \E a \in Ids :
        /\ agents[a].depth = 1
        /\ agents[a].pc = "chat"
        /\ agents[a].chatModel = agents[RootAgent].models.subAgent
        /\ agents[RootAgent].chatModel = agents[RootAgent].models.primaryAgent
        /\ agents[RootAgent].chatModel # agents[a].chatModel

\* ---------------------------------------------------------------- C34
\* C34: at every chat call of an agent its messages start with the seed
\* user message, alternate user / assistant and end with a user message:
\* 2k+1 of them at the (k+1)-th call; the request is the system prompt
\* followed by those messages, and no system message is ever stored
C34_HistoryAlternates ==
    \A a \in Ids :
        LET m == agents[a].messages IN
        /\ \A n \in 1..Len(m) : m[n] # "system"
        /\ agents[a].pc = "chat" =>
              /\ Len(m) = 2 * (agents[a].calls - 1) + 1
              /\ \A n \in 1..Len(m) :
                    m[n] = IF n % 2 = 1 THEN "user" ELSE "assistant"
              /\ agents[a].calls = 1 =>
                    agents[a].lastMessage = Message("user", "seed")
              /\ agents[a].lastMessage.role = "user"
              /\ agents[a].request = <<"system">> \o m
\* an agent is in its second chat call, its first reply and the
\* observation of that turn in the history
C34_Witness ==
    \E a \in Ids :
        /\ agents[a].pc = "chat"
        /\ agents[a].calls = 2
        /\ agents[a].messages = <<"user", "assistant", "user">>
        /\ agents[a].lastMessage = Message("user", "Output")

\* ---------------------------------------------------------------- C38
\* C38: the output an agent logs and feeds back for a turn holds only what
\* was printed, or appended as an error line, while that turn's code ran
\* in that agent's sandbox: nothing of an earlier turn, of the seed step,
\* or of another agent
C38_OutputOfOwnTurnOnly ==
    \A a \in Ids :
        (agents[a].pc = "gen" /\ agents[a].lastMessage = Message("user", "Output")) =>
            LET buf == agents[a].stdoutBuffer IN
            \A n \in 1..Len(buf) :
                /\ buf[n].run_id = a
                /\ buf[n].turn = agents[a].lastStep.step - 1
                /\ buf[n].kind \in {"print", "PyError", "MaxDepthError"}
\* a child has fed back the printed output of its second turn after its
\* parent printed in the turn that started it
C38_Witness ==
    \E a \in Ids :
        /\ agents[a].depth = 1
        /\ agents[a].pc = "gen"
        /\ agents[a].lastMessage = Message("user", "Output")
        /\ agents[a].lastStep.step = 2
        /\ agents[a].stdoutBuffer = <<[kind |-> "print", run_id |-> a, turn |-> 1]>>
        /\ agents[agents[a].parent_run_id].stdoutBuffer # <<>>

\* ---------------------------------------------------------------- C35
\* the global prompt or completion total is above its cap
BudgetExceeded ==
    PromptBudgetExceeded(totalUsage, limits)
        \/ CompletionBudgetExceeded(totalUsage, limits)
\* some agent issues a chat-completion call in this step
ChatCallIssued ==
    \E a \in Ids : agents'[a].calls > agents[a].calls
\* C35: once the global prompt or completion total is above its cap, no
\* agent of the tree issues another chat-completion call, whichever agent
\* detected the violation
C35_NoChatCallAfterBudgetExceeded ==
    [][BudgetExceeded => ~ChatCallIssued]_vars

\* ---------------------------------------------------------------- C33
\* subagent() of agent a has started and has neither returned nor thrown
Running(a) == ~Finished(a)
\* C33: while a child started through llm_query runs, its parent is
\* suspended in that llm_query call (no chat call, no event, no new turn
\* until the child has returned or failed), and the running agents form a
\* single chain from the root: one agent per depth, each the child its
\* parent waits for, never two siblings at once
C33_RunningAgentsFormChain ==
    \A c \in Ids :
        Running(c) =>
            /\ \A b \in Ids \ {c} : Running(b) => agents[b].depth # agents[c].depth
            /\ agents[c].parent_run_id # NoRun =>
                  LET p == agents[c].parent_run_id IN
                  /\ Running(p)
                  /\ agents[p].pc = "await"
                  /\ agents[p].waitingFor = c

\* ---------------------------------------------------------------- C39
\* agent a has left subagent() with a final result, with a budget error or
\* with the MAX_CALLS error
EndedThreeWays(a) ==
    \/ agents[a].pc = "returned" /\ agents[a].result # None
    \/ /\ agents[a].pc = "failed"
       /\ agents[a].error \in {"budget_prompt", "budget_completion", "max_calls"}
\* agent a has left subagent() in one of those ways or, as the root, with
\* the error of the model preflight
EndedOneWay(a) ==
    \/ EndedThreeWays(a)
    \/ /\ agents[a].pc = "failed"
       /\ agents[a].parent_run_id = NoRun
       /\ agents[a].calls = 0
       /\ agents[a].error \in {"config", "proxy", "model"}
\* runSubagentCommand has returned an exit code
CommandReturned == cmd.pc = "done" /\ cmd.exitCode \in {EXIT_OK, EXIT_RUNTIME}
\* runSubagentCommand has thrown the usage error of an invalid --prefix or
\* the error of the --output write
CommandThrew == cmd.pc = "threw" /\ cmd.thrown \in {"usage", "output"}
====
